---------------------------- MODULE Spec2Model ----------------------------
(***************************************************************************)
(* Model of the FIA document pipeline of src/hello.py (the same store,     *)
(* filter and per-document loop are repeated in src/twitter.py): the       *)
(* processed-set store (_load_processed_docs / _save_processed_docs), the  *)
(* FILTER of fetch_documents and the per-document loop of main().          *)
(*                                                                         *)
(* Strings are sequences of one-character tokens (two tokens stand for a   *)
(* fixed lower-case substring: the site prefix and the ".pdf" suffix), so  *)
(* that strip / lower / replace / basename are computed, not assumed.      *)
(***************************************************************************)
EXTENDS Integers, Sequences, FiniteSets, TLC

\* ------------------------------------------------------------------ bounds
MaxListing   == 2      \* rows of the listing page
MaxRuns      == 2      \* consecutive executions of main()
MaxPlatforms == 2      \* platforms that have credentials in the environment

\* ------------------------------------------------------------- characters
SITE == "https://www.fia.com"
PDF  == ".pdf"

\* str.lower() on one token
LowerChar(c) ==
    CASE c = "A" -> "a"
      [] c = "X" -> "x"
      [] OTHER   -> c

\* str.lower()
LowerStr(s) == [k \in 1..Len(s) |-> LowerChar(s[k])]

RECURSIVE LStrip(_)
LStrip(s) == IF s # <<>> /\ Head(s) = " " THEN LStrip(Tail(s)) ELSE s

RECURSIVE RStrip(_)
RStrip(s) ==
    IF s # <<>> /\ s[Len(s)] = " " THEN RStrip(SubSeq(s, 1, Len(s) - 1)) ELSE s

\* str.strip()
Strip(s) == RStrip(LStrip(s))

\* str.replace("\\", "/")
ReplaceBackslash(s) == [k \in 1..Len(s) |-> IF s[k] = "\\" THEN "/" ELSE s[k]]

\* url.strip().lower().replace("\\", "/")
Normalize(u) == ReplaceBackslash(LowerStr(Strip(u)))

\* position of the last "/" of s, 0 when there is none
LastSlash(s) ==
    LET P == {k \in 1..Len(s) : s[k] = "/"}
    IN  IF P = {} THEN 0 ELSE CHOOSE k \in P : \A j \in P : j <= k

\* os.path.basename (posixpath): what follows the last "/"
Basename(s) == SubSeq(s, LastSlash(s) + 1, Len(s))

\* the elements of a list ("x in list")
Range(s) == {s[k] : k \in 1..Len(s)}

\* --------------------------------------------------------- the listing page
\* href attributes of the rows of the listing page (tokens)
Hrefs ==
    { <<"/", "x", "/", "a", PDF>>,          \* a document
      <<" ", SITE, "/", "X", "\\", "A", PDF>>,  \* the same document: absolute, with a
                                            \* leading blank, capitals and a backslash
      <<"/", "y", "/", "a", PDF>>,          \* another URL with the same file name
      <<"/", "x", "/", "b", PDF>> }         \* another document

RECURSIVE SeqsUpTo(_, _)
SeqsUpTo(S, n) ==
    IF n = 0 THEN {<<>>}
    ELSE LET R == SeqsUpTo(S, n - 1)
         IN  R \cup {Append(r, x) : r \in {q \in R : Len(q) = n - 1}, x \in S}

Listings == SeqsUpTo(Hrefs, MaxListing)

\* href=lambda x: x and x.endswith(".pdf")
EndsWithPdf(href) == href # <<>> /\ href[Len(href)] = PDF

\* doc_url = f"https://www.fia.com{href}" if href.startswith("/") else href
DocUrl(href) == IF href # <<>> /\ Head(href) = "/" THEN <<SITE>> \o href ELSE href

\* ------------------------------------------------------- processed_docs.json
\* The file is missing, holds text that is not JSON (the empty text left by a
\* truncating open, a cut-off write), or holds a JSON value: an array whose
\* items are strings or not (a number, null), or an object, of which
\* iteration yields the keys.
Str(u)      == [str |-> TRUE, val |-> u]
NotAString  == [str |-> FALSE, val |-> <<>>]
Missing     == [kind |-> "missing", items |-> <<>>]
NotJson     == [kind |-> "notjson", items |-> <<>>]
JsonArray(items)  == [kind |-> "array", items |-> items]
JsonObject(keys)  == [kind |-> "object", items |-> keys]

\* json.dump(self.processed_docs["urls"], f): one JSON string per list entry
JsonDump(urls) == JsonArray([k \in 1..Len(urls) |-> Str(urls[k])])

\* url.strip() raises AttributeError on an item that is not a string
AllStrings(f) == \A k \in 1..Len(f.items) : f.items[k].str

EmptySet == [urls |-> <<>>, filenames |-> {}]

\* _load_processed_docs, the try body: the normalized urls and their basenames
LoadedSet(f) ==
    LET normalized_urls == [k \in 1..Len(f.items) |-> Normalize(f.items[k].val)]
    IN  [urls      |-> normalized_urls,
         filenames |-> {LowerStr(Basename(normalized_urls[k])) :
                            k \in 1..Len(normalized_urls)}]

\* LoadProcessedDocs without the os.rename of the except clause
MutLoadKeepsFile(f) ==
    IF f.kind \in {"missing", "notjson"}
    THEN [raised |-> FALSE, pd |-> EmptySet, file |-> f, renamed |-> FALSE]
    ELSE [raised |-> ~AllStrings(f), pd |-> IF AllStrings(f) THEN LoadedSet(f) ELSE EmptySet,
          file |-> f, renamed |-> FALSE]

\* _load_processed_docs: what it returns (or that it raises), the file it
\* leaves at processed_docs.json and whether it renamed the file found there
LoadProcessedDocs(f) ==
    IF f.kind = "missing"
    THEN \* FileNotFoundError; os.path.exists is false
         [raised |-> FALSE, pd |-> EmptySet, file |-> f, renamed |-> FALSE]
    ELSE IF f.kind = "notjson"
    THEN \* json.JSONDecodeError; os.rename to the backup name
         [raised |-> FALSE, pd |-> EmptySet, file |-> Missing, renamed |-> TRUE]
    ELSE IF ~AllStrings(f)
    THEN \* AttributeError of url.strip(), which the except clause does not name
         [raised |-> TRUE, pd |-> EmptySet, file |-> f, renamed |-> FALSE]
    ELSE [raised |-> FALSE, pd |-> LoadedSet(f), file |-> f, renamed |-> FALSE]

\* ------------------------------------------------------------- FILTER
\* IsNew with "or" between the URL test and the file-name test
MutIsNewAnd(pd, documents, doc_url) ==
    LET normalized_url == Normalize(doc_url)
        filename       == LowerStr(Basename(normalized_url))
    IN  /\ \/ normalized_url \notin {LowerStr(u) : u \in Range(pd.urls)}
           \/ filename \notin pd.filenames
        /\ doc_url \notin Range(documents)

\* IsNew without the tests against the processed set
MutIsNewAlways(pd, documents, doc_url) == doc_url \notin Range(documents)

\* "normalized_url not in [url.lower() for url in self.processed_docs['urls']]
\*  and filename not in self.processed_docs['filenames']
\*  and doc_url not in documents"
IsNew(pd, documents, doc_url) ==
    LET normalized_url == Normalize(doc_url)
        filename       == LowerStr(Basename(normalized_url))
    IN  /\ normalized_url \notin {LowerStr(u) : u \in Range(pd.urls)}
        /\ filename \notin pd.filenames
        /\ doc_url \notin Range(documents)

\* fetch_documents, the loop over the rows from row k on: the candidate list
\* and the processed set it leaves (the file name of every accepted row is
\* added to processed_docs["filenames"])
RECURSIVE FilterRows(_, _, _, _)
FilterRows(rows, k, pd, documents) ==
    IF k > Len(rows) THEN [documents |-> documents, pd |-> pd]
    ELSE IF ~EndsWithPdf(rows[k]) THEN FilterRows(rows, k + 1, pd, documents)
    ELSE LET doc_url  == DocUrl(rows[k])
             filename == LowerStr(Basename(Normalize(doc_url)))
         IN  IF IsNew(pd, documents, doc_url)
             THEN FilterRows(rows, k + 1,
                             [pd EXCEPT !.filenames = @ \cup {filename}],
                             Append(documents, doc_url))
             ELSE FilterRows(rows, k + 1, pd, documents)

\* unique_documents = list(dict.fromkeys(documents))
RECURSIVE DictFromKeys(_)
DictFromKeys(docs) ==
    IF docs = <<>> THEN <<>>
    ELSE LET init == DictFromKeys(SubSeq(docs, 1, Len(docs) - 1))
             last == docs[Len(docs)]
         IN  IF last \in Range(init) THEN init ELSE Append(init, last)

\* main: "if normalized_url in [url.lower() for url in handler.processed_docs['urls']]"
AlreadyProcessed(pd, doc_url) ==
    Normalize(doc_url) \in {LowerStr(u) : u \in Range(pd.urls)}

\* --------------------------------------------------------------- PUBLISH
\* the keys of the results of post_to_social_media, in its order
Platforms ==
    << "bluesky", "mastodon", "threads", "instagram", "facebook",
       "pixelfed", "telegram", "linkedin", "tumblr" >>

PlatformSet == Range(Platforms)

\* the platforms whose credentials the environment holds
Configured == {Platforms[k] : k \in 1..MaxPlatforms}

NoResults == [p \in PlatformSet |-> FALSE]

\* AnySucceeded with all() in place of any()
MutAllSucceeded(results) == \A p \in PlatformSet : results[p]

\* AnySucceeded without the test
MutAlwaysCommit(results) == TRUE

\* main: "if any(post_results.values())"
AnySucceeded(results) == \E p \in PlatformSet : results[p]

\* ------------------------------------------------------------------ state
VARIABLES
    run,             \* number of the execution of main()
    pc,              \* position of main()
    listing,         \* the rows of the listing page (the source)
    file,            \* processed_docs.json
    backups,         \* the files renamed to processed_docs.json.bak.<time>
    processed_docs,  \* handler.processed_docs: urls (list) and filenames (set)
    authenticated,   \* the platforms whose *_authenticated flag is set
    documents,       \* unique_documents
    i,               \* position of the per-document loop in unique_documents
    image_paths,     \* TRUE while the page images of the current document exist
    post_results,    \* the results of post_to_social_media
    failed,          \* history: documents that failed on every platform this run
    prev,            \* history: the value of failed at the end of the previous run
    committed,       \* history: documents whose append and save completed
    at_load          \* history: the processed set and the file as load left them

memory == <<processed_docs, authenticated, documents, i, image_paths, post_results>>
history == <<failed, prev, committed, at_load>>
main == <<run, pc, listing, file, backups, memory, history>>

\* the state of one destination's authenticate_* and post_to_* (the Publisher)
VARIABLES
    destination,     \* the platform
    page_count,      \* len(image_paths); the pages are 1..page_count
    ppc,             \* position of authenticate_* / post_to_*
    attempt,         \* authenticate_*: the loop variable of range(max_retries)
    chunk_start,     \* post_to_*: the loop variable i of range(0, len(image_paths), b)
    img,             \* the page the upload loop of the chunk is at
    media_ids,       \* the pages of the chunk whose upload succeeded, in order
    posts,           \* the posts created at the destination, in order of creation
    root_post,       \* root_post / root_tweet / root_post_id (0: None)
    parent_post,     \* parent_post / parent_tweet / parent_status / parent_post_id
    auth_returned,   \* what authenticate_* returned
    returned,        \* what post_to_* returned
    upload_failures, \* history: the pages whose upload failed
    post_failures    \* history: the number of post submissions that failed

publisher ==
    <<destination, page_count, ppc, attempt, chunk_start, img, media_ids, posts,
      root_post, parent_post, auth_returned, returned, upload_failures,
      post_failures>>

\* the state of the caption part of one post_to_* (the Caption Builder)
VARIABLES
    caption_of,      \* the post_to_* that builds the caption
    title_in,        \* the title _parse_document_info returned
    source_url,      \* doc_url, character by character
    cpc,             \* position in the caption part
    doc_title,       \* doc_title after the truncation
    formatted_text,  \* formatted_text
    facets           \* facets, in the order of the append calls

caption ==
    <<caption_of, title_in, source_url, cpc, doc_title, formatted_text, facets>>

\* the state of one call of post_to_social_media / post_to_both_platforms
VARIABLES
    fan_of,          \* the program whose fan-out runs: "hello" or "twitter"
    credentials,     \* the destinations whose credentials the environment holds
    fan_pc,          \* position of main: "auth", "exit" or "publish"
    flags,           \* the destinations whose *_authenticated flag is set
    position,        \* the number of the next block of the fan-out
    attempts,        \* the post_to_* calls made, with what each did
    results          \* results (twitter.py: the *_success variables)

fanout == <<fan_of, credentials, fan_pc, flags, position, attempts, results>>

\* the temporary files of one document of the loop of main
VARIABLES
    disk,            \* the files in download_dir
    kpc,             \* position in the processing of the document
    pdf_pages,       \* the number of pages of the PDF
    doc_images,      \* image_paths, as download_and_convert_pdf returned it
    instagram_image_paths,  \* instagram_image_paths of post_to_instagram
    instagram_authenticated,
    any_posted       \* any(post_results.values())

cleanup ==
    <<disk, kpc, pdf_pages, doc_images, instagram_image_paths,
      instagram_authenticated, any_posted>>

\* the state of one request of TwitterAPIClient (twitter.py)
VARIABLES
    request,         \* the call: "tweet" (post_tweet) or "media" (upload_media_v1)
    has_refresh_token,  \* self.refresh_token is set
    rpc,             \* position in the call
    exchanges,       \* the HTTP requests sent, with the time and the response of each
    now,             \* the time
    client_result    \* what the call returned

client == <<request, has_refresh_token, rpc, exchanges, now, client_result>>

\* the per-document loop of main, with the exceptions its body can raise
VARIABLES
    candidates,      \* len(unique_documents); the documents are 1..candidates
    doc,             \* the position of the loop in unique_documents
    lpc,             \* position in the body of the loop
    loop_urls,       \* handler.processed_docs["urls"]
    saved,           \* the list in processed_docs.json
    began,           \* the documents whose processing began, in order
    raised_in        \* the statement that raised, for the documents that raised

loop == <<candidates, doc, lpc, loop_urls, saved, began, raised_in>>

\* the authenticate_* calls of main, one destination after the other
VARIABLES
    script,          \* the script whose main runs: hello.py or twitter.py
    login_of,        \* the position of main in the sequence of its authenticate_* calls
    login_pc,        \* position in the authenticate_* call
    tries,           \* attempt, the variable of 'for attempt in range(max_retries)'
    logins,          \* the login attempts made by the call
    slept,           \* the arguments of the time.sleep calls of the call, in order
    auth_flags,      \* the destinations whose *_authenticated flag is True
    login_returned   \* what the call returned

login ==
    <<script, login_of, login_pc, tries, logins, slept, auth_flags,
      login_returned>>

\* the Reddit-to-Bluesky forwarder (reddit_to_bsky.py): consecutive runs of check_and_post
VARIABLES
    checks,          \* number of the run of check_and_post
    fpc,             \* position of check_and_post
    clock,           \* time.time() at the start of the check
    created,         \* created_utc of the posts of subreddit.new, newest first
                     \* (the posts are 1..Len(created))
    posted_file,     \* the ids in posted_ids.json
    posted_ids,      \* posted_ids
    post_at,         \* position of the loop in subreddit.new
    found,           \* history: the posts for which this check logged 'Found new post'
    threads_made,    \* history: for every post, the calls of
                     \* create_bluesky_thread that returned True
    unposted         \* history: the posts a check handled without a thread

forwarder ==
    <<checks, fpc, clock, created, posted_file, posted_ids, post_at, found,
      threads_made, unposted>>

vars == <<main, publisher, caption, fanout, cleanup, client, loop, login, forwarder>>
\* what the run of main leaves alone
beside_main == <<publisher, caption, fanout, cleanup, client, loop, login, forwarder>>
\* what authenticate_* and the loops of post_to_* leave alone
beside_publisher == <<main, caption, fanout, cleanup, client, loop, login, forwarder>>
\* what the caption part of post_to_* leaves alone
beside_caption == <<main, publisher, fanout, cleanup, client, loop, login, forwarder>>
\* what post_to_social_media leaves alone
beside_fanout == <<main, publisher, caption, cleanup, client, loop, login, forwarder>>
\* what the files of a document leave alone
beside_cleanup == <<main, publisher, caption, fanout, client, loop, login, forwarder>>
\* what a request of TwitterAPIClient leaves alone
beside_client == <<main, publisher, caption, fanout, cleanup, loop, login, forwarder>>
\* what the per-document loop leaves alone
beside_loop == <<main, publisher, caption, fanout, cleanup, client, login, forwarder>>
\* what the authenticate_* calls leave alone
beside_login == <<main, publisher, caption, fanout, cleanup, client, loop, forwarder>>
\* what check_and_post leaves alone
beside_forwarder == <<main, publisher, caption, fanout, cleanup, client, loop, login>>

\* the positions at which the process is running
Running ==
    {"start", "auth", "fetch", "loop", "publish", "commit", "save_open",
     "save_write", "cleanup"}
\* the positions at which the process has ended
Ended == {"done", "raised", "fatal", "crashed"}
\* the positions of a run at which the handler exists
Loaded == (Running \ {"start"}) \cup {"done", "fatal"}

\* processed_docs.json as an execution can find it: missing, damaged, a JSON
\* value that is not a list of strings, or a list written by an earlier run
\* (which wrote the document URLs as listed)
InitFiles ==
    { Missing, NotJson,
      JsonArray(<<NotAString>>),
      JsonObject(<<>>),
      JsonArray(<<Str(<<SITE, "/", "X", "/", "z", PDF>>)>>) }  \* no longer listed

\* no authenticate_* / post_to_* is under way
NoPublisher ==
    /\ destination = "none"
    /\ page_count = 0
    /\ ppc = "idle"
    /\ attempt = 0
    /\ chunk_start = 0
    /\ img = 0
    /\ media_ids = <<>>
    /\ posts = <<>>
    /\ root_post = 0
    /\ parent_post = 0
    /\ auth_returned = "none"
    /\ returned = "none"
    /\ upload_failures = {}
    /\ post_failures = 0

\* no caption is being built
NoCaption ==
    /\ caption_of = "none"
    /\ title_in = <<>>
    /\ source_url = <<>>
    /\ cpc = "idle"
    /\ doc_title = <<>>
    /\ formatted_text = <<>>
    /\ facets = <<>>

\* no post_to_social_media is under way
NoFanOut ==
    /\ fan_of = "none"
    /\ credentials = {}
    /\ fan_pc = "idle"
    /\ flags = {}
    /\ position = 0
    /\ attempts = <<>>
    /\ results = <<>>

\* no document is being processed
NoCleanup ==
    /\ disk = {}
    /\ kpc = "idle"
    /\ pdf_pages = 0
    /\ doc_images = <<>>
    /\ instagram_image_paths = <<>>
    /\ instagram_authenticated = FALSE
    /\ any_posted = FALSE

\* no request of TwitterAPIClient is under way
NoClient ==
    /\ request = "none"
    /\ has_refresh_token = FALSE
    /\ rpc = "idle"
    /\ exchanges = <<>>
    /\ now = 0
    /\ client_result = "none"

\* the per-document loop is not under way
NoLoop ==
    /\ candidates = 0
    /\ doc = 0
    /\ lpc = "idle"
    /\ loop_urls = <<>>
    /\ saved = <<>>
    /\ began = <<>>
    /\ raised_in = <<>>

\* no authenticate_* call is under way
NoLogin ==
    /\ script = "none"
    /\ login_of = 0
    /\ login_pc = "idle"
    /\ tries = 0
    /\ logins = 0
    /\ slept = <<>>
    /\ auth_flags = {}
    /\ login_returned = "none"

\* the forwarder is not under way
NoForwarder ==
    /\ checks = 0
    /\ fpc = "idle"
    /\ clock = 0
    /\ created = <<>>
    /\ posted_file = {}
    /\ posted_ids = {}
    /\ post_at = 0
    /\ found = {}
    /\ threads_made = <<>>
    /\ unposted = {}

\* nothing but the process of main is under way
OnlyMain ==
    NoPublisher /\ NoCaption /\ NoFanOut /\ NoCleanup
        /\ NoClient /\ NoLoop /\ NoLogin /\ NoForwarder

NoMemory ==
    /\ processed_docs = EmptySet
    /\ authenticated = {}
    /\ documents = <<>>
    /\ i = 0
    /\ image_paths = FALSE
    /\ post_results = NoResults

Init ==
    /\ run = 1
    /\ pc = "start"
    /\ listing \in Listings
    /\ file \in InitFiles
    /\ backups = <<>>
    /\ NoMemory
    /\ failed = {}
    /\ prev = {}
    /\ committed = {}
    /\ at_load = [pd |-> EmptySet, file |-> Missing]
    /\ OnlyMain

\* ---------------------------------------------------------------- actions
ResetMemory ==
    /\ processed_docs' = EmptySet
    /\ authenticated' = {}
    /\ documents' = <<>>
    /\ i' = 0
    /\ image_paths' = FALSE
    /\ post_results' = NoResults

\* handler = FIADocumentHandler(): __init__ calls _load_processed_docs
Load ==
    /\ pc = "start"
    /\ LET r == LoadProcessedDocs(file)
       IN  /\ file' = r.file
           /\ backups' = IF r.renamed THEN Append(backups, file) ELSE backups
           /\ processed_docs' = r.pd
           /\ pc' = IF r.raised THEN "raised" ELSE "auth"
           /\ at_load' = [pd |-> r.pd, file |-> r.file]
    /\ UNCHANGED <<run, listing, authenticated, documents, i, image_paths,
                   post_results, failed, prev, committed>>

\* main, the authentication of every platform: a platform without
\* credentials, or whose login fails, stays unauthenticated; main returns
\* when no platform is authenticated
Authenticate ==
    /\ pc = "auth"
    /\ \E auth \in SUBSET Configured :
         /\ authenticated' = auth
         /\ pc' = IF auth = {} THEN "done" ELSE "fetch"
    /\ UNCHANGED <<run, listing, file, backups, processed_docs, documents, i,
                   image_paths, post_results, history>>

\* documents, document_info = handler.fetch_documents();
\* unique_documents = list(dict.fromkeys(documents))
Fetch ==
    /\ pc = "fetch"
    /\ LET r == FilterRows(listing, 1, processed_docs, <<>>)
       IN  /\ processed_docs' = r.pd
           /\ documents' = DictFromKeys(r.documents)
    /\ i' = 1
    /\ pc' = "loop"
    /\ UNCHANGED <<run, listing, file, backups, authenticated, image_paths,
                   post_results, history>>

\* requests.get raises in fetch_documents: "Fatal error", re-raised by main
FetchRaises ==
    /\ pc = "fetch"
    /\ pc' = "fatal"
    /\ UNCHANGED <<run, listing, file, backups, memory, history>>

\* for doc_url in unique_documents: the end of the list, or the "Skipping
\* already processed document" continue
NextDocument ==
    /\ pc = "loop"
    /\ IF i > Len(documents)
       THEN pc' = "done" /\ i' = i
       ELSE /\ AlreadyProcessed(processed_docs, documents[i])
            /\ pc' = "loop" /\ i' = i + 1
    /\ UNCHANGED <<run, listing, file, backups, processed_docs, authenticated,
                   documents, image_paths, post_results, history>>

\* a document that is not skipped:
\* image_paths = handler.download_and_convert_pdf(doc_url)
Download ==
    /\ pc = "loop"
    /\ i <= Len(documents)
    /\ ~AlreadyProcessed(processed_docs, documents[i])
    /\ image_paths' = TRUE
    /\ pc' = "publish"
    /\ UNCHANGED <<run, listing, file, backups, processed_docs, authenticated,
                   documents, i, post_results, history>>

\* download_and_convert_pdf raises: "except Exception ... continue"
DownloadRaises ==
    /\ pc = "loop"
    /\ i <= Len(documents)
    /\ ~AlreadyProcessed(processed_docs, documents[i])
    /\ i' = i + 1
    /\ pc' = "loop"
    /\ UNCHANGED <<run, listing, file, backups, processed_docs, authenticated,
                   documents, image_paths, post_results, history>>

\* post_results = handler.post_to_social_media(...): a platform that is not
\* authenticated gets False, an authenticated one what its post_to_* returns
\* (False as well when it raises)
Publish ==
    /\ pc = "publish"
    /\ \E r \in [authenticated -> BOOLEAN] :
         post_results' = [p \in PlatformSet |-> p \in authenticated /\ r[p]]
    /\ pc' = "commit"
    /\ UNCHANGED <<run, listing, file, backups, processed_docs, authenticated,
                   documents, i, image_paths, history>>

\* if any(post_results.values()): processed_docs["urls"].append(doc_url)
\* (then _save_processed_docs), else the warning
Commit ==
    /\ pc = "commit"
    /\ IF AnySucceeded(post_results)
       THEN /\ processed_docs' =
                  [processed_docs EXCEPT !.urls = Append(@, documents[i])]
            /\ pc' = "save_open"
       ELSE /\ processed_docs' = processed_docs
            /\ pc' = "cleanup"
    /\ failed' = IF \A p \in PlatformSet : ~post_results[p]
                 THEN failed \cup {documents[i]}
                 ELSE failed
    /\ UNCHANGED <<run, listing, file, backups, authenticated, documents, i,
                   image_paths, post_results, prev, committed, at_load>>

\* _save_processed_docs: open("processed_docs.json", "w") truncates the file
SaveOpen ==
    /\ pc = "save_open"
    /\ file' = NotJson
    /\ pc' = "save_write"
    /\ UNCHANGED <<run, listing, backups, memory, history>>

\* _save_processed_docs: json.dump(self.processed_docs["urls"], f) and close
SaveWrite ==
    /\ pc = "save_write"
    /\ file' = JsonDump(processed_docs.urls)
    /\ committed' = committed \cup {documents[i]}
    /\ pc' = "cleanup"
    /\ UNCHANGED <<run, listing, backups, memory, failed, prev, at_load>>

\* "Clean up image files" and the end of the loop body
Cleanup ==
    /\ pc = "cleanup"
    /\ image_paths' = FALSE
    /\ post_results' = NoResults
    /\ i' = i + 1
    /\ pc' = "loop"
    /\ UNCHANGED <<run, listing, file, backups, processed_docs, authenticated,
                   documents, history>>

\* the process is terminated: its memory is gone, the files stay as they are
Crash ==
    /\ pc \in Running
    /\ pc' = "crashed"
    /\ ResetMemory
    /\ UNCHANGED <<run, listing, file, backups, history>>

\* the next execution of main(), on the same listing page
Restart ==
    /\ pc \in Ended
    /\ run < MaxRuns
    /\ run' = run + 1
    /\ pc' = "start"
    /\ ResetMemory
    /\ prev' = failed
    /\ failed' = {}
    /\ at_load' = [pd |-> EmptySet, file |-> Missing]
    /\ UNCHANGED <<listing, file, backups, committed>>

Next ==
    \/ Load /\ UNCHANGED beside_main
    \/ Authenticate /\ UNCHANGED beside_main
    \/ Fetch /\ UNCHANGED beside_main
    \/ FetchRaises /\ UNCHANGED beside_main
    \/ NextDocument /\ UNCHANGED beside_main
    \/ Download /\ UNCHANGED beside_main
    \/ DownloadRaises /\ UNCHANGED beside_main
    \/ Publish /\ UNCHANGED beside_main
    \/ Commit /\ UNCHANGED beside_main
    \/ SaveOpen /\ UNCHANGED beside_main
    \/ SaveWrite /\ UNCHANGED beside_main
    \/ Cleanup /\ UNCHANGED beside_main
    \/ Crash /\ UNCHANGED beside_main
    \/ Restart /\ UNCHANGED beside_main

Spec == Init /\ [][Next]_vars

\* ----------------------------------------------------------------- claims
\* the document the per-document loop is at
Doc == documents[i]
\* the strings of the JSON array in the file
FileStrings == {file.items[k].val : k \in 1..Len(file.items)}
\* the documents of the listing page
Listed == {DocUrl(listing[k]) : k \in 1..Len(listing)}
\* the positions of a run after fetch_documents has returned
Fetched ==
    /\ pc \in {"loop", "publish", "commit", "save_open", "save_write",
               "cleanup", "done"}
    /\ authenticated # {}
\* the positions between RENDER and CLEANUP of one document
Processing == {"publish", "commit", "save_open", "save_write", "cleanup"}

FailedEverywhereIsRetried ==
    /\ \A d \in failed :
           d \notin Range(processed_docs.urls) /\ d \notin FileStrings
    /\ pc = "start" => \A d \in prev : d \notin FileStrings
    /\ Fetched => \A d \in prev : d \in Range(documents)
    /\ (pc = "loop" /\ i <= Len(documents) /\ Doc \in prev)
           => Normalize(Doc) \notin {LowerStr(u) : u \in Range(processed_docs.urls)}

\* C2 witness: a document that failed everywhere in the previous execution
\* is handed to post_to_social_media again, after another document was
\* committed.
FailedEverywhereIsRetriedWitness ==
    /\ run = 2
    /\ pc = "publish"
    /\ Doc \in prev
    /\ committed # {}

\* C3: when fetch_documents has returned, its candidate list holds no listed
\* document whose normalized URL is in the loaded processed_docs["urls"] or
\* whose lower-cased file name is in the loaded processed_docs["filenames"];
\* either one suffices.
FilterExcludesProcessed ==
    (pc = "loop" /\ i = 1) =>
        \A d \in Listed :
            \/ d \notin Range(documents)
            \/ ~ ( \/ Normalize(d) \in Range(at_load.pd.urls)
                   \/ LowerStr(Basename(Normalize(d))) \in at_load.pd.filenames )

\* C3 witness: a document committed by the earlier execution under a URL
\* with capital letters is listed and left out, and so is a listed document
\* that shares only the file name with a processed URL.
FilterExcludesProcessedWitness ==
    /\ run = 2
    /\ pc = "loop"
    /\ i = 1
    /\ \E c \in committed \cap Listed :
         /\ c # Normalize(c)
         /\ Normalize(c) \in Range(at_load.pd.urls)
         /\ c \notin Range(documents)
    /\ \E d \in Listed :
         /\ Normalize(d) \notin Range(at_load.pd.urls)
         /\ LowerStr(Basename(Normalize(d))) \in at_load.pd.filenames
         /\ d \notin Range(documents)

\* C4: in an execution in which every listed document is in the loaded
\* processed set (by URL or by file name), no document is downloaded or
\* published and neither processed_docs (urls, filenames) nor the file
\* changes after the load.
NoNewDocumentsNoChange ==
    \/ pc \notin Loaded
    \/ /\ pc \notin Processing
       /\ processed_docs = at_load.pd
       /\ file = at_load.file
    \/ \E d \in Listed :
          /\ Normalize(d) \notin Range(at_load.pd.urls)
          /\ LowerStr(Basename(Normalize(d))) \notin at_load.pd.filenames

\* C4 witness: the second execution ends on a listing whose documents were
\* all committed by the first one.
NoNewDocumentsNoChangeWitness ==
    /\ run = 2
    /\ pc = "done"
    /\ authenticated # {}
    /\ Listed # {}
    /\ Listed \subseteq committed
    /\ documents = <<>>
    /\ file = at_load.file

\* C5: once the handler exists, processed_docs["filenames"] is exactly the
\* set of the lower-cased basenames of processed_docs["urls"].
FilenamesAreBasenamesOfUrls ==
    pc \in Loaded =>
        processed_docs.filenames =
            {LowerStr(Basename(u)) : u \in Range(processed_docs.urls)}

LoadNeverRaises == pc # "raised"

\* C8: whenever the process was terminated, the set the next load returns
\* contains every URL whose append and save had completed.
CommittedSurviveTermination ==
    pc \in Loaded =>
        \A u \in committed :
            Normalize(u) \in {Normalize(v) : v \in Range(processed_docs.urls)}

\* C9: between the processing of two documents the JSON array in the file
\* equals processed_docs["urls"] (no array is stored while urls is empty).
FileEqualsUrlsBetweenDocuments ==
    (pc = "loop" /\ 1 < i /\ i <= Len(documents)) =>
        \/ file = JsonDump(processed_docs.urls)
        \/ file.kind # "array" /\ processed_docs.urls = <<>>

\* C10: every entry of processed_docs["urls"], and every string of the file
\* once a save has written it, is a normalized URL.
UrlsAreNormalized ==
    /\ \A u \in Range(processed_docs.urls) : Normalize(u) = u
    /\ (pc = "cleanup" /\ \E p \in PlatformSet : post_results[p])
           => \A u \in FileStrings : Normalize(u) = u

\* ======================================================================
\* The Publisher: authenticate_* and post_to_* of one threaded destination
\* (hello.py: bluesky, mastodon, threads; twitter.py: twitter), for one
\* document of page_count pages.
\* ======================================================================
MaxBatches == 3    \* the documents have up to MaxBatches full batches of pages
MaxFaults  == 1    \* uploads and post submissions that fail during one post_to_*,
                   \* beside the uploads of a chunk that go on failing

\* max_retries=3
MaxRetries == 3

Threaded == {"bluesky", "twitter", "mastodon", "threads"}

\* the step of range(0, len(image_paths), b) and the width of the slice
BatchSize(dest) == IF dest = "threads" THEN 10 ELSE 4

\* twitter.py's authenticate_twitter_oauth2 has no retry loop
Retries(dest) == IF dest = "twitter" THEN 1 ELSE MaxRetries

Min(a, b) == IF a <= b THEN a ELSE b

\* ChunkEnd with a slice one page short: image_paths[i : i + b - 1]
MutChunkEndShort(k, b, n) == Min(k + b - 1, n)

\* chunk = image_paths[i : i + b]: the last page of the chunk that starts
\* after page k of n
ChunkEnd(k, b, n) == Min(k + b, n)

\* ReplyParent with the reply attached to the first post of the thread
MutReplyToRoot(parent, root) == root

\* the post a continuation is created in reply to: parent_post["uri"],
\* parent_tweet["id"], parent_status["id"], parent_post_id
ReplyParent(parent, root) == parent

\* the except clause of post_to_* left out: the exception leaves post_to_*
MutPostReraises == "raised"

\* post_to_*: "except Exception as e: logging.error(...); return False"
PostOnException == "False"

\* authenticate_*: the except clause on the last attempt
\* ("if attempt == max_retries - 1: ... return False")
AuthOnException == "False"

\* what post_to_* returns after its loop: True, in post_to_twitter
\* "if root_tweet: return True else: return False"
ReturnAfterLoop(dest, root) ==
    IF dest = "twitter" /\ root = 0 THEN "False" ELSE "True"

\* what a failed upload of one image does in post_to_* of the destination:
\* bluesky: upload_blob raises, nothing catches it before the outer except;
\* twitter: upload_media returns None, the image is left out;
\* mastodon: media_post raises inside the try of the upload loop, left out;
\* threads: _upload_image_to_public_url returns None; the carousel leaves the
\*          image out, the single-image container returns None
UploadFailure(dest, chunk_len) ==
    CASE dest = "bluesky"  -> "raise"
      [] dest = "twitter"  -> "excluded"
      [] dest = "mastodon" -> "excluded"
      [] dest = "threads"  -> IF chunk_len = 1 THEN "no_container" ELSE "excluded"

\* what a failed submission of a post does: bluesky and mastodon raise,
\* post_tweet returns None ("break"), the Threads container or its
\* publication fails ("return False")
PostFailure(dest) ==
    CASE dest = "bluesky"  -> PostOnException
      [] dest = "mastodon" -> PostOnException
      [] dest = "twitter"  -> "break"
      [] dest = "threads"  -> "False"

\* the text of the post of the chunk: bluesky and twitter test the parent
\* ("if parent_post"), mastodon and threads the position (i == 0)
PostText(dest, k, parent) ==
    IF dest \in {"bluesky", "twitter"}
    THEN IF parent # 0 THEN "Continued" ELSE "formatted_text"
    ELSE IF k = 0 THEN "formatted_text" ELSE "Continued"

\* the numbering of the continuations from 0: i//b
MutPartFromZero(dest, k) == k \div BatchSize(dest)

\* f"Continued... ({i//4 + 1}/...)", i//10 + 1 in post_to_threads
ContinuedPart(dest, k) == (k \div BatchSize(dest)) + 1

\* f"Continued... (.../{(len(image_paths) + 3)//4})",
\* (len(image_paths) + 9)//10 in post_to_threads
ContinuedParts(dest, n) == (n + BatchSize(dest) - 1) \div BatchSize(dest)

\* the post created for the chunk that starts after page k of n; part and
\* parts are the two numbers of the text of a continuation (0: the caption
\* has none)
NewPost(dest, k, n, media, parent, root) ==
    [ images   |-> media,
      text     |-> PostText(dest, k, parent),
      part     |-> IF PostText(dest, k, parent) = "Continued"
                   THEN ContinuedPart(dest, k) ELSE 0,
      parts    |-> IF PostText(dest, k, parent) = "Continued"
                   THEN ContinuedParts(dest, n) ELSE 0,
      reply_to |-> IF dest \in {"bluesky", "twitter"}
                   THEN IF parent # 0 THEN ReplyParent(parent, root) ELSE 0
                   ELSE IF k = 0 THEN 0 ELSE ReplyParent(parent, root),
      root     |-> IF dest = "bluesky" /\ parent # 0 THEN root ELSE 0 ]

Faults == Cardinality(upload_failures) + post_failures

\* an upload may fail while the faults are below the bound, and while every
\* upload of the chunk so far has failed (the chunk fails as a whole)
UploadMayFail ==
    \/ Faults < MaxFaults
    \/ media_ids = <<>> /\ img > chunk_start + 1

\* the run of main is not under way
NoMain ==
    /\ run = 0
    /\ pc = "idle"
    /\ listing = <<>>
    /\ file = Missing
    /\ backups = <<>>
    /\ NoMemory
    /\ failed = {}
    /\ prev = {}
    /\ committed = {}
    /\ at_load = [pd |-> EmptySet, file |-> Missing]

PublishInit ==
    /\ NoMain
    /\ NoCaption
    /\ NoFanOut
    /\ NoCleanup
    /\ NoClient
    /\ NoLoop
    /\ NoLogin
    /\ NoForwarder
    /\ destination \in Threaded
    /\ page_count \in 0..(MaxBatches * BatchSize(destination))
    /\ ppc = "auth"
    /\ attempt = 0
    /\ chunk_start = 0
    /\ img = 0
    /\ media_ids = <<>>
    /\ posts = <<>>
    /\ root_post = 0
    /\ parent_post = 0
    /\ auth_returned = "none"
    /\ returned = "none"
    /\ upload_failures = {}
    /\ post_failures = 0

\* authenticate_*: the login succeeds: "self.*_authenticated = True; return True"
AuthSucceeds ==
    /\ ppc = "auth"
    /\ auth_returned' = "True"
    /\ ppc' = "post"
    /\ UNCHANGED <<destination, page_count, attempt, chunk_start, img, media_ids,
                   posts, root_post, parent_post, returned, upload_failures,
                   post_failures>>

\* authenticate_*: the login raises: the next attempt (after
\* time.sleep(2**attempt)), or False on the last one; post_to_* is then not
\* called (the *_authenticated flag stays False)
AuthRaises ==
    /\ ppc = "auth"
    /\ IF attempt = Retries(destination) - 1
       THEN /\ auth_returned' = AuthOnException
            /\ ppc' = "done"
            /\ attempt' = attempt
       ELSE /\ attempt' = attempt + 1
            /\ UNCHANGED <<auth_returned, ppc>>
    /\ UNCHANGED <<destination, page_count, chunk_start, img, media_ids, posts,
                   root_post, parent_post, returned, upload_failures,
                   post_failures>>

\* post_to_*, up to the loop over the chunks: the caption, root and parent None
BeginPost ==
    /\ ppc = "post"
    /\ chunk_start' = 0
    /\ root_post' = 0
    /\ parent_post' = 0
    /\ ppc' = "chunk"
    /\ UNCHANGED <<destination, page_count, attempt, img, media_ids, posts,
                   auth_returned, returned, upload_failures, post_failures>>

\* post_to_mastodon handles image_paths[:4] before its loop over
\* range(4, len(image_paths), 4): its first chunk is taken also when empty
TakesChunk(dest, k, n) == k < n \/ (dest = "mastodon" /\ k = 0)

\* for i in range(0, len(image_paths), b): the next chunk, or the end of the
\* loop and the return
NextChunk ==
    /\ ppc = "chunk"
    /\ IF ~TakesChunk(destination, chunk_start, page_count)
       THEN /\ returned' = ReturnAfterLoop(destination, root_post)
            /\ ppc' = "done"
            /\ UNCHANGED <<img, media_ids>>
       ELSE /\ media_ids' = <<>>
            /\ img' = chunk_start + 1
            /\ ppc' = IF chunk_start < page_count THEN "upload" ELSE "submit"
            /\ returned' = returned
    /\ UNCHANGED <<destination, page_count, attempt, chunk_start, posts, root_post,
                   parent_post, auth_returned, upload_failures, post_failures>>

\* the position after the upload of page img
AfterUpload ==
    IF img = ChunkEnd(chunk_start, BatchSize(destination), page_count)
    THEN ppc' = "submit" /\ img' = img
    ELSE ppc' = "upload" /\ img' = img + 1

\* for img_path in chunk: the upload of one image succeeds
UploadImage ==
    /\ ppc = "upload"
    /\ media_ids' = Append(media_ids, img)
    /\ AfterUpload
    /\ UNCHANGED <<destination, page_count, attempt, chunk_start, posts, root_post,
                   parent_post, auth_returned, returned, upload_failures,
                   post_failures>>

\* for img_path in chunk: the upload of one image fails
UploadFails ==
    /\ ppc = "upload"
    /\ UploadMayFail
    /\ upload_failures' = upload_failures \cup {img}
    /\ LET chunk_len == ChunkEnd(chunk_start, BatchSize(destination), page_count)
                            - chunk_start
           effect == UploadFailure(destination, chunk_len)
       IN  CASE effect = "excluded" ->
                    /\ AfterUpload
                    /\ returned' = returned
             [] effect = "raise" ->
                    /\ returned' = PostOnException
                    /\ ppc' = "done"
                    /\ img' = img
             [] effect = "no_container" ->
                    /\ returned' = "False"
                    /\ ppc' = "done"
                    /\ img' = img
    /\ UNCHANGED <<destination, page_count, attempt, chunk_start, media_ids, posts,
                   root_post, parent_post, auth_returned, post_failures>>

\* the carousel of Threads: the creation of the container of one image
\* raises (raise_for_status), _create_threads_carousel_container returns None
\* and post_to_threads False
CarouselItemRaises ==
    /\ ppc = "upload"
    /\ destination = "threads"
    /\ ChunkEnd(chunk_start, BatchSize(destination), page_count) - chunk_start > 1
    /\ Faults < MaxFaults
    /\ post_failures' = post_failures + 1
    /\ returned' = "False"
    /\ ppc' = "done"
    /\ UNCHANGED <<destination, page_count, attempt, chunk_start, img, media_ids,
                   posts, root_post, parent_post, auth_returned, upload_failures>>

\* the post of the chunk is created: the first with the caption, the later
\* ones as replies
SubmitPost ==
    /\ ppc = "submit"
    /\ media_ids # <<>>
    /\ posts' = Append(posts, NewPost(destination, chunk_start, page_count,
                                      media_ids, parent_post, root_post))
    /\ parent_post' = Len(posts) + 1
    /\ root_post' = IF root_post = 0 THEN Len(posts) + 1 ELSE root_post
    /\ chunk_start' = chunk_start + BatchSize(destination)
    /\ ppc' = "chunk"
    /\ UNCHANGED <<destination, page_count, attempt, img, media_ids, auth_returned,
                   returned, upload_failures, post_failures>>

\* the submission of the post of the chunk fails
SubmitFails ==
    /\ ppc = "submit"
    /\ media_ids # <<>>
    /\ Faults < MaxFaults
    /\ post_failures' = post_failures + 1
    /\ returned' = IF PostFailure(destination) = "break"
                   THEN ReturnAfterLoop(destination, root_post)
                   ELSE PostFailure(destination)
    /\ ppc' = "done"
    /\ UNCHANGED <<destination, page_count, attempt, chunk_start, img, media_ids,
                   posts, root_post, parent_post, auth_returned, upload_failures>>

\* no image of the chunk was uploaded:
\* twitter: "if not media_ids: continue";
\* mastodon: the first chunk is posted as text only and post_to_mastodon
\*           returns True, a later chunk is left out;
\* threads: "No images were successfully uploaded for carousel", return False
EmptyChunk ==
    /\ ppc = "submit"
    /\ media_ids = <<>>
    /\ CASE destination = "twitter" ->
                /\ chunk_start' = chunk_start + BatchSize(destination)
                /\ ppc' = "chunk"
                /\ UNCHANGED <<posts, returned>>
         [] destination = "mastodon" /\ chunk_start = 0 ->
                /\ posts' = Append(posts, [images |-> <<>>, text |-> "formatted_text",
                                           part |-> 0, parts |-> 0,
                                           reply_to |-> 0, root |-> 0])
                /\ returned' = "True"
                /\ ppc' = "done"
                /\ chunk_start' = chunk_start
         [] destination = "mastodon" /\ chunk_start # 0 ->
                /\ chunk_start' = chunk_start + BatchSize(destination)
                /\ ppc' = "chunk"
                /\ UNCHANGED <<posts, returned>>
         [] destination = "threads" ->
                /\ returned' = "False"
                /\ ppc' = "done"
                /\ UNCHANGED <<posts, chunk_start>>
    /\ UNCHANGED <<destination, page_count, attempt, img, media_ids, root_post,
                   parent_post, auth_returned, upload_failures, post_failures>>

PublishNext ==
    \/ AuthSucceeds /\ UNCHANGED beside_publisher
    \/ AuthRaises /\ UNCHANGED beside_publisher
    \/ BeginPost /\ UNCHANGED beside_publisher
    \/ NextChunk /\ UNCHANGED beside_publisher
    \/ UploadImage /\ UNCHANGED beside_publisher
    \/ UploadFails /\ UNCHANGED beside_publisher
    \/ CarouselItemRaises /\ UNCHANGED beside_publisher
    \/ SubmitPost /\ UNCHANGED beside_publisher
    \/ SubmitFails /\ UNCHANGED beside_publisher
    \/ EmptyChunk /\ UNCHANGED beside_publisher

SpecPublish == PublishInit /\ [][PublishNext]_vars

\* ------------------------------------------------- claims on the Publisher
\* the pages a post carries
Images(m) == Range(posts[m].images)
\* the number of the batch of page p (from 1)
BatchOf(p) == ((p - 1) \div BatchSize(destination)) + 1
\* the posts created as replies
Replies == {m \in 1..Len(posts) : posts[m].reply_to # 0}

\* C11: the pages of every post are pages of one batch, in their order, and
\* a later post carries a later batch (no page twice); when authenticate_* has
\* succeeded and no upload or submission failed, post_to_* returns True
\* having created ceil(n/b) posts, the m-th carrying exactly the pages
\* (m-1)*b+1 .. min(m*b, n) in order, all but the first created as replies;
\* for 9 pages and b = 4 these are posts of 4, 4 and 1 pages and 2 replies;
\* of a document without pages no post carries a page.
BatchesPartitionThePages ==
    LET b == BatchSize(destination)
        n == page_count
    IN  /\ \A m \in 1..Len(posts) :
              LET pages == posts[m].images
              IN  /\ \A x \in 1..(Len(pages) - 1) : pages[x] < pages[x + 1]
                  /\ pages # <<>> => BatchOf(pages[1]) = BatchOf(pages[Len(pages)])
                  /\ (m > 1 /\ pages # <<>>) =>
                         /\ posts[m - 1].images # <<>>
                         /\ BatchOf(posts[m - 1].images[1]) < BatchOf(pages[1])
        /\ n = 0 => \A m \in 1..Len(posts) : posts[m].images = <<>>
        /\ (ppc = "done" /\ auth_returned = "True" /\ Faults = 0 /\ n > 0) =>
              /\ returned = "True"
              /\ Len(posts) = (n + b - 1) \div b
              /\ \A m \in 1..Len(posts) :
                     posts[m].images =
                         [x \in 1..((IF m * b <= n THEN m * b ELSE n) - (m - 1) * b)
                              |-> (m - 1) * b + x]
              /\ Cardinality(Replies) = Len(posts) - 1
              /\ (n = 9 /\ b = 4) =>
                     /\ [m \in 1..Len(posts) |-> Len(posts[m].images)] = <<4, 4, 1>>
                     /\ Cardinality(Replies) = 2

\* C11 witness: post_to_bluesky has returned True for a document of 9 pages,
\* having created posts of 4, 4 and 1 pages.
BatchesPartitionThePagesWitness ==
    /\ destination = "bluesky"
    /\ page_count = 9
    /\ ppc = "done"
    /\ returned = "True"
    /\ Len(posts) = 3
    /\ Len(posts[1].images) = 4
    /\ Len(posts[2].images) = 4
    /\ posts[3].images = <<9>>

\* C12: the first post of a document at a destination carries the caption
\* and is no reply; every later post is a "Continued" post created in reply
\* to the post created just before it, and on bluesky its root reference is
\* the first post.
RepliesFormALinearChain ==
    \A m \in 1..Len(posts) :
        IF m = 1
        THEN /\ posts[m].reply_to = 0
             /\ posts[m].root = 0
             /\ posts[m].text = "formatted_text"
        ELSE /\ posts[m].reply_to = m - 1
             /\ posts[m].text = "Continued"
             /\ destination = "bluesky" => posts[m].root = 1

\* C12 witness: the third post of a document on bluesky replies to the
\* second, with the first as its root.
RepliesFormALinearChainWitness ==
    /\ destination = "bluesky"
    /\ Len(posts) = 3
    /\ posts[3].reply_to = 2
    /\ posts[3].root = 1

\* C19: authenticate_* and post_to_* return True or False and never raise:
\* authenticate_* ends with True or, after the last attempt raised, False
\* (post_to_* is then not entered); post_to_* ends with True or False,
\* whichever upload or submission failed.
DestinationErrorsBecomeBooleans ==
    /\ auth_returned \in {"none", "True", "False"}
    /\ returned \in {"none", "True", "False"}
    /\ ppc = "done" =>
          \/ auth_returned = "False" /\ returned = "none"
                /\ attempt = Retries(destination) - 1
          \/ auth_returned = "True" /\ returned \in {"True", "False"}

\* C19 witness: the submission of a continuation post raised on bluesky,
\* after the first post was created, and post_to_bluesky returned False.
DestinationErrorsBecomeBooleansWitness ==
    /\ destination = "bluesky"
    /\ ppc = "done"
    /\ posts # <<>>
    /\ post_failures = 1
    /\ returned = "False"

\* C20: when uploads of single images failed, each in a batch that has
\* another page, and nothing else failed, post_to_* returns True and every
\* page whose upload did not fail is carried by a post.
UploadFailureExcludesOnlyThatImage ==
    ( /\ ppc = "done"
      /\ auth_returned = "True"
      /\ post_failures = 0
      /\ upload_failures # {}
      /\ \A p \in upload_failures :
             \E q \in (1..page_count) \ upload_failures : BatchOf(q) = BatchOf(p) )
    => /\ returned = "True"
       /\ \A q \in (1..page_count) \ upload_failures :
              \E m \in 1..Len(posts) : q \in Images(m)

\* ======================================================================
\* The Caption Builder: the caption part of post_to_bluesky, post_to_mastodon,
\* post_to_threads (hello.py), post_to_twitter (twitter.py) and of
\* create_bluesky_thread (reddit_to_bsky.py). A text is the sequence of its
\* characters; "<2>", "<3>" and "<4>" stand for one character each whose
\* UTF-8 encoding has 2, 3 and 4 bytes.
\* ======================================================================
MaxDelta == 1     \* how far the lengths of titles and URLs go past the limits

NL == "\n"

\* the post_to_* that build a caption with title, date, hashtags and URL
Captioned == {"bluesky", "mastodon", "threads", "twitter"}
\* those that record facets
Faceted == {"bluesky", "reddit", "reddit_reply"}

\* GLOBAL_HASHTAGS = "#f1 #formula1 #fia #CanadianGP"
GLOBAL_HASHTAGS ==
    << "#", "f", "1", " ", "#", "f", "o", "r", "m", "u", "l", "a", "1", " ",
       "#", "f", "i", "a", " ", "#", "C", "a", "n", "a", "d", "i", "a", "n",
       "G", "P" >>

\* twitter.py: GLOBAL_HASHTAGS = "#f1 #formula1 #fia #SpanishGP"
SPANISH_HASHTAGS ==
    << "#", "f", "1", " ", "#", "f", "o", "r", "m", "u", "l", "a", "1", " ", "#",
       "f", "i", "a", " ", "#", "S", "p", "a", "n", "i", "s", "h", "G", "P" >>

\* all_hashtags = f"{GLOBAL_HASHTAGS}"
Hashtags(builder) ==
    IF builder = "twitter" THEN SPANISH_HASHTAGS ELSE GLOBAL_HASHTAGS

\* reddit_to_bsky.py: the text of a reply, f"Continued... ({i//4 + 1}/{...})"
CONTINUED ==
    << "C", "o", "n", "t", "i", "n", "u", "e", "d", ".", ".", ".", " ", "(",
       "2", "/", "2", ")" >>

\* reddit_to_bsky.py: the hashtags of f"{title}\n\n#f1 #formula1 #memes"
MEME_HASHTAGS ==
    << "#", "f", "1", " ", "#", "f", "o", "r", "m", "u", "l", "a", "1", " ",
       "#", "m", "e", "m", "e", "s" >>

\* all_tags = ["f1", "formula1", "fia", "CanadianGP"];
\* reddit_to_bsky.py: for tag in ["f1", "formula1", "memes"]
AllTags(builder) ==
    IF builder \notin Captioned
    THEN << <<"f", "1">>, <<"f", "o", "r", "m", "u", "l", "a", "1">>,
            <<"m", "e", "m", "e", "s">> >>
    ELSE << <<"f", "1">>, <<"f", "o", "r", "m", "u", "l", "a", "1">>,
            <<"f", "i", "a">>,
            <<"C", "a", "n", "a", "d", "i", "a", "n", "G", "P">> >>

\* "\nPublished on " (twitter.py: "\nPublished: ")
PublishedOn(builder) ==
    IF builder = "twitter"
    THEN
    << "P", "u", "b", "l", "i", "s", "h", "e", "d", ":", " " >>
    ELSE
    << "P", "u", "b", "l", "i", "s", "h", "e", "d", " ", "o", "n", " " >>

\* pub_date, as strftime("%d.%m.%y %H:%M CET") gives it
PubDate ==
    << "0", "1", ".", "0", "6", ".", "2", "5", " ", "1", "0", ":", "0", "0",
       " ", "C", "E", "T" >>

\* max_title_length
MaxTitleLength(builder) == IF builder = "twitter" THEN 120 ELSE 200

\* the limit in "if len(formatted_text) + len(doc_url) + 1 <= 300"
MaxTotalLength(builder) ==
    CASE builder = "bluesky"  -> 300
      [] builder = "mastodon" -> 480
      [] builder = "threads"  -> 480
      [] builder = "twitter"  -> 280

\* the number added to the two lengths in that test
Margin(builder) == IF builder = "twitter" THEN 2 ELSE 1

\* c * n
Rep(c, n) == [k \in 1..n |-> c]

\* the number of bytes of the UTF-8 encoding of a character
Width(c) ==
    CASE c = "<2>" -> 2
      [] c = "<3>" -> 3
      [] c = "<4>" -> 4
      [] OTHER     -> 1

\* the bytes of a character: byte k of n of c
CharBytes(c) == [k \in 1..Width(c) |-> <<c, k>>]

\* text.encode("utf-8"): the bytes of the characters, one after the other
RECURSIVE Encode(_)
Encode(text) ==
    IF text = <<>> THEN <<>>
    ELSE IF Len(text) = 1 THEN CharBytes(text[1])
    ELSE LET half == Len(text) \div 2
         IN  Encode(SubSeq(text, 1, half))
                 \o Encode(SubSeq(text, half + 1, Len(text)))

\* bytes.decode("utf-8"): the characters, or an error when the bytes begin
\* or end inside a character
RECURSIVE Decode(_)
Decode(bytes) ==
    IF bytes = <<>> THEN <<>>
    ELSE LET c == bytes[1][1]
             w == Width(c)
         IN  IF /\ w <= Len(bytes)
                /\ \A k \in 1..w : bytes[k] = <<c, k>>
             THEN <<c>> \o Decode(SubSeq(bytes, w + 1, Len(bytes)))
             ELSE <<"UnicodeDecodeError">>

\* ByteOffset with the character offset taken for the byte offset
MutCharOffset(text, k) == k

\* len(formatted_text[:k].encode("utf-8"))
ByteOffset(text, k) == Len(Encode(SubSeq(text, 1, k)))

\* text.find(pattern): the offset of the first occurrence, -1 when none
Find(text, pattern) ==
    LET At == {k \in 0..(Len(text) - Len(pattern)) :
                  SubSeq(text, k + 1, k + Len(pattern)) = pattern}
    IN  IF At = {} THEN -1 ELSE CHOOSE k \in At : \A j \in At : k <= j

\* Truncate without the room for the ellipsis: doc_title[:max_title_length] + "..."
MutTruncateNoRoom(title, max_title_length) ==
    IF Len(title) > max_title_length
    THEN SubSeq(title, 1, max_title_length) \o <<".", ".", ".">>
    ELSE title

\* if len(doc_title) > max_title_length:
\*     doc_title = doc_title[: max_title_length - 3] + "..."
Truncate(title, max_title_length) ==
    IF Len(title) > max_title_length
    THEN SubSeq(title, 1, max_title_length - 3) \o <<".", ".", ".">>
    ELSE title

\* formatted_text = f"{doc_title}\nPublished on {pub_date}\n\n{all_hashtags}";
\* reddit_to_bsky.py: f"{title}\n\n#f1 #formula1 #memes"
Format(builder, title) ==
    CASE builder = "reddit"       -> title \o <<NL, NL>> \o MEME_HASHTAGS
      [] builder = "reddit_reply" -> CONTINUED
      [] OTHER -> title \o <<NL>> \o PublishedOn(builder) \o PubDate
                        \o <<NL, NL>> \o Hashtags(builder)

\* if len(formatted_text) + len(doc_url) + 1 <= 300
Fits(builder, text, url) ==
    Len(text) + Len(url) + Margin(builder) <= MaxTotalLength(builder)

\* formatted_text += f"\n\n{doc_url}"
WithUrl(text, url) == text \o <<NL, NL>> \o url

\* requests.utils.quote(doc_url, safe=":/?="): the characters that are not
\* letters, digits, "_.-~" or safe are percent-encoded
Quote(url) == [k \in 1..Len(url) |-> IF url[k] = " " THEN "%20" ELSE url[k]]

\* "Add URL facet": the facets after it
LinkFacet(text, url) ==
    LET url_start == Find(text, url)
    IN  IF url_start # -1
        THEN << [ type      |-> "link",
                  byteStart |-> ByteOffset(text, url_start),
                  byteEnd   |-> ByteOffset(text, url_start + Len(url)),
                  value     |-> Quote(url) ] >>
        ELSE <<>>

\* TagSpan with the end computed from len(tag)
MutTagSpanNoHash(text, tag) ==
    LET tag_with_hash == <<"#">> \o tag
        tag_pos == Find(text, tag_with_hash)
    IN  IF tag_pos # -1
        THEN << [ type      |-> "tag",
                  byteStart |-> ByteOffset(text, tag_pos),
                  byteEnd   |-> ByteOffset(text, tag_pos + Len(tag)),
                  value     |-> tag ] >>
        ELSE <<>>

\* the body of "for tag in all_tags": the facet appended for the tag, if any
TagSpan(text, tag) ==
    LET tag_with_hash == <<"#">> \o tag
        tag_pos == Find(text, tag_with_hash)
    IN  IF tag_pos # -1
        THEN << [ type      |-> "tag",
                  byteStart |-> ByteOffset(text, tag_pos),
                  byteEnd   |-> ByteOffset(text, tag_pos + Len(tag_with_hash)),
                  value     |-> tag ] >>
        ELSE <<>>

\* "for tag in all_tags", from the k-th tag on
RECURSIVE TagFacets(_, _, _)
TagFacets(text, tags, k) ==
    IF k > Len(tags) THEN <<>>
    ELSE TagSpan(text, tags[k]) \o TagFacets(text, tags, k + 1)

\* ------------------------------------------------------------ the inputs
\* how titles begin: plainly, with characters of several bytes, with a
\* hashtag of the list
TitleHeads ==
    { <<>>,
      <<"<2>", "<3>", "<4>", " ">>,
      <<"<3>", "#", "f", "i", "a", " ">> }

\* the lengths of the titles: short, and around max_title_length
TitleLens(builder) ==
    IF builder \notin Captioned
    THEN {6 + d : d \in 0..MaxDelta}
    ELSE {6} \cup {MaxTitleLength(builder) + d : d \in (0 - MaxDelta)..MaxDelta}

Titles(builder) ==
    {head \o Rep("t", n - Len(head)) : head \in TitleHeads, n \in TitleLens(builder)}

\* a document URL of n characters, with a blank in its file name or without
Url(n, blank) ==
    << "h", "t", "t", "p", "s", ":", "/", "/", "w", "w", "w", ".", "f", "i",
       "a", ".", "c", "o", "m", "/" >>
    \o Rep("d", n - 25) \o <<IF blank THEN " " ELSE "_">>
    \o <<".", "p", "d", "f">>

\* the lengths of the URLs: around the length at which the URL just passes
\* the length test after a title of max_title_length characters
UrlLens(builder) ==
    LET longest == Len(Format(builder, Rep("t", MaxTitleLength(builder))))
        passes  == MaxTotalLength(builder) - Margin(builder) - longest
    IN  {passes + d : d \in (0 - MaxDelta)..MaxDelta}

CaptionInit ==
    /\ NoMain
    /\ NoPublisher
    /\ NoFanOut
    /\ NoCleanup
    /\ NoClient
    /\ NoLoop
    /\ NoLogin
    /\ NoForwarder
    /\ caption_of \in Captioned \cup {"reddit", "reddit_reply"}
    /\ title_in \in Titles(caption_of)
    /\ IF caption_of \notin Captioned
       THEN source_url = <<>>
       ELSE source_url \in {Url(n, blank) : n \in UrlLens(caption_of),
                                             blank \in BOOLEAN}
    /\ cpc = IF caption_of \in Captioned THEN "title" ELSE "format"
    /\ doc_title = title_in
    /\ formatted_text = <<>>
    /\ facets = <<>>

\* the truncation of the title
TruncateTitle ==
    /\ cpc = "title"
    /\ doc_title' = Truncate(title_in, MaxTitleLength(caption_of))
    /\ cpc' = "format"
    /\ UNCHANGED <<caption_of, title_in, source_url, formatted_text, facets>>

\* formatted_text = ...
FormatText ==
    /\ cpc = "format"
    /\ formatted_text' = Format(caption_of, doc_title)
    /\ cpc' = IF caption_of \in Captioned THEN "url" ELSE "tags"
    /\ UNCHANGED <<caption_of, title_in, source_url, doc_title, facets>>

\* the URL is appended if the length test passes
AppendUrl ==
    /\ cpc = "url"
    /\ formatted_text' = IF Fits(caption_of, formatted_text, source_url)
                         THEN WithUrl(formatted_text, source_url)
                         ELSE formatted_text
    /\ cpc' = IF caption_of \in Faceted THEN "link" ELSE "done"
    /\ UNCHANGED <<caption_of, title_in, source_url, doc_title, facets>>

\* post_to_bluesky: "Add URL facet"
AddLinkFacet ==
    /\ cpc = "link"
    /\ facets' = facets \o LinkFacet(formatted_text, source_url)
    /\ cpc' = "tags"
    /\ UNCHANGED <<caption_of, title_in, source_url, doc_title, formatted_text>>

\* "Make all hashtags clickable": the loop over all_tags
\* (reddit_to_bsky.py: only "if i == 0")
AddTagFacets ==
    /\ cpc = "tags"
    /\ facets' = IF caption_of = "reddit_reply" THEN facets
                  ELSE facets \o TagFacets(formatted_text, AllTags(caption_of), 1)
    /\ cpc' = "done"
    /\ UNCHANGED <<caption_of, title_in, source_url, doc_title, formatted_text>>

CaptionNext ==
    \/ TruncateTitle /\ UNCHANGED beside_caption
    \/ FormatText /\ UNCHANGED beside_caption
    \/ AppendUrl /\ UNCHANGED beside_caption
    \/ AddLinkFacet /\ UNCHANGED beside_caption
    \/ AddTagFacets /\ UNCHANGED beside_caption

SpecCaption == CaptionInit /\ [][CaptionNext]_vars

\* ------------------------------------------------------- claims, caption
\* the text before the URL is appended, from the title and the literals
CaptionHead ==
    doc_title \o <<NL>> \o PublishedOn(caption_of) \o PubDate \o <<NL, NL>>
              \o Hashtags(caption_of)

\* C13: a title longer than max_title_length (200 for Bluesky, Mastodon and
\* Threads, 120 for Twitter) appears in the caption as exactly
\* max_title_length characters, the last three being the ellipsis "..." and
\* the others the beginning of the title; a title of at most max_title_length
\* characters appears unchanged. The title segment is what precedes the
\* "\nPublished" line of the caption.
LongTitleIsCutToMaxLength ==
    (caption_of \in Captioned /\ cpc \in {"url", "link", "tags", "done"}) =>
        LET limit == IF caption_of = "twitter" THEN 120 ELSE 200
            n == Len(doc_title)
        IN  /\ SubSeq(formatted_text, 1, n) = doc_title
            /\ SubSeq(formatted_text, n + 1, n + 1 + Len(PublishedOn(caption_of)))
                   = <<NL>> \o PublishedOn(caption_of)
            /\ IF Len(title_in) > limit
               THEN /\ n = limit
                    /\ SubSeq(doc_title, limit - 2, limit) = <<".", ".", ".">>
                    /\ SubSeq(doc_title, 1, limit - 3) = SubSeq(title_in, 1, limit - 3)
               ELSE doc_title = title_in

\* a title of max_title_length + 1 characters has been cut, and a title of
\* exactly max_title_length characters has been kept (seen on Twitter's 120)
LongTitleIsCutToMaxLengthWitness ==
    /\ cpc = "done"
    /\ caption_of = "bluesky"
    /\ Len(title_in) = 201
    /\ Len(doc_title) = 200
    /\ doc_title # title_in
    /\ title_in[1] = "<2>"

\* the characters that the bytes byteStart..byteEnd of the caption decode to
SpanText(facet) ==
    Decode(SubSeq(Encode(formatted_text), facet.byteStart + 1, facet.byteEnd))

\* C14: whenever the caption has a link span, the bytes of the UTF-8
\* encoding of the caption from byteStart (included) to byteEnd (excluded)
\* decode to exactly the URL of the document, whatever mix of characters of
\* one and of several bytes the title has.
LinkSpanDecodesToUrl ==
    \A k \in 1..Len(facets) :
        facets[k].type = "link" =>
            /\ 0 <= facets[k].byteStart
            /\ facets[k].byteStart <= facets[k].byteEnd
            /\ facets[k].byteEnd <= Len(Encode(formatted_text))
            /\ SpanText(facets[k]) = source_url

\* a link span behind a title with characters of 2, 3 and 4 bytes: its byte
\* offset is larger than the character offset of the URL
LinkSpanDecodesToUrlWitness ==
    /\ cpc = "done"
    /\ caption_of = "bluesky"
    /\ title_in[1] = "<2>"
    /\ Len(facets) > 0
    /\ facets[1].type = "link"
    /\ facets[1].byteStart > Len(formatted_text) - Len(source_url)
    /\ facets[1].byteEnd = Len(Encode(formatted_text))

\* C15: the URL is appended to the caption, as two newlines followed by the
\* URL, exactly when the caption with them has at most maxTotalLength
\* characters (300 for Bluesky, 480 for Mastodon and Threads, 280 for
\* Twitter); and whenever the URL is appended, the final caption has at most
\* that many characters.
UrlAppendedIffItFits ==
    (caption_of \in Captioned /\ cpc \in {"link", "tags", "done"}) =>
        LET limit == CASE caption_of = "bluesky" -> 300
                       [] caption_of = "twitter" -> 280
                       [] OTHER                  -> 480
            with_url == CaptionHead \o <<NL, NL>> \o source_url
        IN  /\ formatted_text \in {CaptionHead, with_url}
            /\ formatted_text = with_url <=> Len(with_url) <= limit
            /\ formatted_text = with_url => Len(formatted_text) <= limit

\* the token occurs in the text
Occurs(text, token) ==
    \E k \in 0..(Len(text) - Len(token)) :
        SubSeq(text, k + 1, k + Len(token)) = token

\* the tags of a hashtag list such as "#f1 #formula1": the words behind "#"
HashtagsIn(list) ==
    LET starts == {x \in 1..Len(list) : list[x] = "#"}
        ends   == {x \in 1..Len(list) : x = Len(list) \/ list[x + 1] = " "}
    IN  {SubSeq(list, a + 1, b) : a \in starts, b \in ends}
            \ {word \in {SubSeq(list, a + 1, b) : a \in starts, b \in ends} :
                   word = <<>> \/ \E x \in 1..Len(word) : word[x] = " "}

\* the hashtag list of the captions of a builder
HashtagList(builder) ==
    IF builder \in Captioned THEN Hashtags(builder) ELSE MEME_HASHTAGS

\* C16: when the caption is complete, for every tag of the global hashtag
\* list there is a tag span if and only if "#" followed by the tag occurs in
\* the text of the caption; there is at most one span per tag, the bytes
\* byteStart..byteEnd of each span decode to "#" followed by its tag, and
\* there is no span for anything that is not a tag of the list.
TagSpansMatchTokens ==
    (cpc = "done" /\ caption_of \in Faceted) =>
        LET tags == HashtagsIn(HashtagList(caption_of))
            SpansOf(tag) == {k \in 1..Len(facets) :
                                facets[k].type = "tag" /\ facets[k].value = tag}
        IN  /\ \A tag \in tags :
                   /\ SpansOf(tag) # {} <=> Occurs(formatted_text, <<"#">> \o tag)
                   /\ Cardinality(SpansOf(tag)) <= 1
                   /\ \A k \in SpansOf(tag) :
                          SpanText(facets[k]) = <<"#">> \o tag
            /\ \A k \in 1..Len(facets) :
                   facets[k].type = "tag" => facets[k].value \in tags

\* a Bluesky caption whose title has "#fia" behind a character of 3 bytes:
\* the span of fia is the one in the title, and the four tags have a span each
TagSpansMatchTokensWitness ==
    /\ cpc = "done"
    /\ caption_of = "bluesky"
    /\ title_in[1] = "<3>"
    /\ Len(title_in) > 200
    /\ Cardinality({k \in 1..Len(facets) : facets[k].type = "tag"}) = 4
    /\ \E k \in 1..Len(facets) :
           /\ facets[k].value = <<"f", "i", "a">>
           /\ facets[k].byteStart = 3
           /\ facets[k].byteEnd = 7

\* ======================================================================
\* The fan-out: post_to_social_media (hello.py) and post_to_both_platforms
\* (twitter.py), one block per destination.
\* ======================================================================
MaxDestinations == 4   \* destinations that may have authenticated

\* the blocks of the fan-out, in the order of the code
FanOrder(program) ==
    IF program = "twitter" THEN <<"bluesky", "twitter">> ELSE Platforms

\* the destinations whose authenticate_* may have set the flag
MayAuthenticate(program) ==
    {FanOrder(program)[k] :
        k \in 1..Min(MaxDestinations, Len(FanOrder(program)))}

\* results = {} (twitter.py: bluesky_success = False; twitter_success = False)
NoResultsYet(program) ==
    IF program = "twitter" THEN [d \in {"bluesky", "twitter"} |-> FALSE]
    ELSE <<>>

\* results[d] = value
SetResult(res, d, value) ==
    [x \in DOMAIN res \cup {d} |-> IF x = d THEN value ELSE res[x]]

\* the exception handler of a block that lets the exception through
MutRaiseLeavesFanOut(k, blocks) == blocks + 1

\* "except Exception as e: ...; results[d] = False": the next block follows
AfterRaise(k, blocks) == k + 1

\* no handler, no document and no caption: only the fan-out is under way
OnlyFanOut ==
    NoMain /\ NoPublisher /\ NoCaption /\ NoCleanup
        /\ NoClient /\ NoLoop /\ NoLogin /\ NoForwarder

FanOutInit ==
    /\ OnlyFanOut
    /\ fan_of \in {"hello", "twitter"}
    /\ credentials \in SUBSET MayAuthenticate(fan_of)
    /\ fan_pc = "auth"
    /\ flags = {}
    /\ position = 1
    /\ attempts = <<>>
    /\ results = NoResultsYet(fan_of)

\* main returns after the authentication unless all of them succeeded
MutExitUnlessAll(auth, creds) == auth # creds

\* main: "if not any(auth_results.values()): ...; return"
\* (twitter.py: "if not platforms_available")
ExitsAfterAuth(auth, creds) == auth = {}

\* main, the authentication: authenticate_* is called for the destinations
\* that have credentials and sets the flag of those whose login succeeds;
\* main returns if there is none, and else goes on to fetch_documents and to
\* the fan-out for a document
AuthenticateDestinations ==
    /\ fan_pc = "auth"
    /\ \E auth \in SUBSET credentials :
         /\ flags' = auth
         /\ fan_pc' = IF ExitsAfterAuth(auth, credentials) THEN "exit"
                       ELSE "publish"
    /\ UNCHANGED <<fan_of, credentials, position, attempts, results>>

\* "else: results[d] = False" (twitter.py: the flag stays False)
SkipDestination ==
    /\ fan_pc = "publish"
    /\ position <= Len(FanOrder(fan_of))
    /\ LET d == FanOrder(fan_of)[position]
       IN  /\ d \notin flags
           /\ results' = SetResult(results, d, FALSE)
    /\ position' = position + 1
    /\ UNCHANGED <<fan_of, credentials, fan_pc, flags, attempts>>

\* "results[d] = self.post_to_d(...)": the call returns True or False
DestinationReturns ==
    /\ fan_pc = "publish"
    /\ position <= Len(FanOrder(fan_of))
    /\ LET d == FanOrder(fan_of)[position]
       IN  /\ d \in flags
           /\ \E value \in BOOLEAN :
                /\ results' = SetResult(results, d, value)
                /\ attempts' = Append(attempts,
                                      [ destination |-> d,
                                        outcome |-> IF value THEN "True"
                                                    ELSE "False" ])
    /\ position' = position + 1
    /\ UNCHANGED <<fan_of, credentials, fan_pc, flags>>

\* the call raises: "except Exception as e: ...; results[d] = False"
DestinationRaises ==
    /\ fan_pc = "publish"
    /\ position <= Len(FanOrder(fan_of))
    /\ LET d == FanOrder(fan_of)[position]
       IN  /\ d \in flags
           /\ results' = SetResult(results, d, FALSE)
           /\ attempts' = Append(attempts,
                                 [destination |-> d, outcome |-> "raised"])
    /\ position' = AfterRaise(position, Len(FanOrder(fan_of)))
    /\ UNCHANGED <<fan_of, credentials, fan_pc, flags>>

FanOutNext ==
    \/ AuthenticateDestinations /\ UNCHANGED beside_fanout
    \/ SkipDestination /\ UNCHANGED beside_fanout
    \/ DestinationReturns /\ UNCHANGED beside_fanout
    \/ DestinationRaises /\ UNCHANGED beside_fanout

SpecFanOut == FanOutInit /\ [][FanOutNext]_vars

\* ------------------------------------------------------ claims, fan-out
\* C17: in a call of post_to_social_media (post_to_both_platforms) the
\* post_to_* calls made so far are, in the order of the blocks, exactly the
\* authenticated destinations among the blocks passed, one call each,
\* whatever the earlier calls returned or raised; and as long as a block is
\* left the fan-out goes on, so that at the end every authenticated
\* destination has been attempted exactly once and every destination has
\* its result.
EveryAuthenticatedDestinationIsAttempted ==
    fan_of # "none" =>
        LET order  == FanOrder(fan_of)
            passed == SubSeq(order, 1, position - 1)
            Authenticated(d) == d \in flags
        IN  /\ position \in 1..(Len(order) + 1)
            /\ [k \in 1..Len(attempts) |-> attempts[k].destination]
                   = SelectSeq(passed, Authenticated)
            /\ \A k \in 1..Len(passed) :
                   /\ passed[k] \in DOMAIN results
                   /\ passed[k] \notin flags => ~results[passed[k]]
            /\ \A k \in 1..Len(attempts) :
                   results[attempts[k].destination]
                       = (attempts[k].outcome = "True")
            /\ (fan_pc = "publish" /\ position <= Len(order)) =>
                   ENABLED FanOutNext

\* post_to_social_media has ended; its first authenticated destination
\* raised, the second returned False, and a third was attempted all the same
\* and returned True; a destination without the flag lies in between
EveryAuthenticatedDestinationIsAttemptedWitness ==
    /\ fan_of = "hello"
    /\ fan_pc = "publish"
    /\ position = Len(Platforms) + 1
    /\ Len(attempts) = 3
    /\ attempts[1].outcome = "raised"
    /\ attempts[2].outcome = "False"
    /\ attempts[3].outcome = "True"
    /\ attempts[3].destination = "instagram"
    /\ DOMAIN results = PlatformSet

\* ======================================================================
\* The temporary files of one document: download_and_convert_pdf,
\* post_to_instagram and the body of the loop of main.
\* ======================================================================
MaxPages == 3     \* pages of a PDF

\* os.path.join(self.download_dir, os.path.basename(url))
PdfFile == [kind |-> "pdf", n |-> 0]
\* os.path.join(self.download_dir, f"page_{i}.jpg")
PageFile(n) == [kind |-> "page", n |-> n]
\* os.path.join(self.download_dir, f"instagram_page_{i}.jpg")
InstagramFile(n) == [kind |-> "instagram_page", n |-> n]

\* "return False" on a failed chunk: the files stay as they are
FilesAfterFailedChunk(files, paths) == files

\* "Clean up Instagram-specific image files": the paths that start with
\* instagram_page_ are removed
FilesAfterInstagram(files, paths) ==
    files \ {f \in Range(paths) : f.kind = "instagram_page"}

\* "except Exception as e: logging.error(...); continue"
FilesAfterException(files, paths) == files

\* "for img_path in image_paths: if os.path.exists(img_path): os.remove(img_path)"
FilesAfterCleanUp(files, paths) == files \ Range(paths)

OnlyCleanup ==
    NoMain /\ NoPublisher /\ NoCaption /\ NoFanOut
        /\ NoClient /\ NoLoop /\ NoLogin /\ NoForwarder

CleanupInit ==
    /\ OnlyCleanup
    /\ disk = {}
    /\ kpc = "download"
    /\ pdf_pages \in 1..MaxPages
    /\ doc_images = <<>>
    /\ instagram_image_paths = <<>>
    /\ instagram_authenticated \in BOOLEAN
    /\ any_posted = FALSE

\* download_and_convert_pdf: the PDF is written
WritePdf ==
    /\ kpc = "download"
    /\ disk' = disk \cup {PdfFile}
    /\ kpc' = "convert"
    /\ UNCHANGED <<pdf_pages, doc_images, instagram_image_paths,
                   instagram_authenticated, any_posted>>

\* pdf2image.convert_from_path raises: the handler of main goes on with the
\* next document
ConvertRaises ==
    /\ kpc = "convert"
    /\ doc_images = <<>>
    /\ disk' = FilesAfterException(disk, doc_images)
    /\ kpc' = "ended"
    /\ UNCHANGED <<pdf_pages, doc_images, instagram_image_paths,
                   instagram_authenticated, any_posted>>

\* image.save(image_path, "JPEG"); image_paths.append(image_path)
SavePage ==
    /\ kpc = "convert"
    /\ Len(doc_images) < pdf_pages
    /\ LET image_path == PageFile(Len(doc_images) + 1)
       IN  /\ disk' = disk \cup {image_path}
           /\ doc_images' = Append(doc_images, image_path)
    /\ UNCHANGED <<kpc, pdf_pages, instagram_image_paths,
                   instagram_authenticated, any_posted>>

\* os.remove(pdf_path); return image_paths
RemovePdf ==
    /\ kpc = "convert"
    /\ Len(doc_images) = pdf_pages
    /\ disk' = disk \ {PdfFile}
    /\ kpc' = IF instagram_authenticated THEN "prepare" ELSE "others"
    /\ UNCHANGED <<pdf_pages, doc_images, instagram_image_paths,
                   instagram_authenticated, any_posted>>

\* _prepare_images_for_instagram: the copy of the next page is saved
PrepareCopy ==
    /\ kpc = "prepare"
    /\ Len(instagram_image_paths) < Len(doc_images)
    /\ LET instagram_path == InstagramFile(Len(instagram_image_paths) + 1)
       IN  /\ disk' = disk \cup {instagram_path}
           /\ instagram_image_paths' =
                  Append(instagram_image_paths, instagram_path)
    /\ UNCHANGED <<kpc, pdf_pages, doc_images, instagram_authenticated,
                   any_posted>>

\* _prepare_images_for_instagram: "If there's an error, use the original image"
PrepareFails ==
    /\ kpc = "prepare"
    /\ Len(instagram_image_paths) < Len(doc_images)
    /\ instagram_image_paths' =
           Append(instagram_image_paths,
                  doc_images[Len(instagram_image_paths) + 1])
    /\ UNCHANGED <<disk, kpc, pdf_pages, doc_images, instagram_authenticated,
                   any_posted>>

\* post_to_instagram: the chunk is not posted (success is False, or the
\* call raises): "return False"
ChunkFails ==
    /\ kpc = "prepare"
    /\ Len(instagram_image_paths) = Len(doc_images)
    /\ disk' = FilesAfterFailedChunk(disk, instagram_image_paths)
    /\ kpc' = "others"
    /\ UNCHANGED <<pdf_pages, doc_images, instagram_image_paths,
                   instagram_authenticated, any_posted>>

\* post_to_instagram: the chunk is posted, the copies are removed: "return True"
ChunkPosted ==
    /\ kpc = "prepare"
    /\ Len(instagram_image_paths) = Len(doc_images)
    /\ disk' = FilesAfterInstagram(disk, instagram_image_paths)
    /\ any_posted' = TRUE
    /\ kpc' = "others"
    /\ UNCHANGED <<pdf_pages, doc_images, instagram_image_paths,
                   instagram_authenticated>>

\* the other destinations of post_to_social_media, then
\* "if any(post_results.values())"
PostElsewhere ==
    /\ kpc = "others"
    /\ \E posted \in BOOLEAN :
         /\ any_posted' = (any_posted \/ posted)
         /\ kpc' = IF any_posted \/ posted THEN "commit" ELSE "remove"
    /\ UNCHANGED <<disk, pdf_pages, doc_images, instagram_image_paths,
                   instagram_authenticated>>

\* handler._save_processed_docs() returns
SaveReturns ==
    /\ kpc = "commit"
    /\ kpc' = "remove"
    /\ UNCHANGED <<disk, pdf_pages, doc_images, instagram_image_paths,
                   instagram_authenticated, any_posted>>

\* handler._save_processed_docs() raises (open or json.dump): the handler of
\* main goes on with the next document
SaveRaises ==
    /\ kpc = "commit"
    /\ disk' = FilesAfterException(disk, doc_images)
    /\ kpc' = "ended"
    /\ UNCHANGED <<pdf_pages, doc_images, instagram_image_paths,
                   instagram_authenticated, any_posted>>

\* "Clean up image files"
RemoveImages ==
    /\ kpc = "remove"
    /\ disk' = FilesAfterCleanUp(disk, doc_images)
    /\ kpc' = "ended"
    /\ UNCHANGED <<pdf_pages, doc_images, instagram_image_paths,
                   instagram_authenticated, any_posted>>

CleanupNext ==
    \/ WritePdf /\ UNCHANGED beside_cleanup
    \/ ConvertRaises /\ UNCHANGED beside_cleanup
    \/ SavePage /\ UNCHANGED beside_cleanup
    \/ RemovePdf /\ UNCHANGED beside_cleanup
    \/ PrepareCopy /\ UNCHANGED beside_cleanup
    \/ PrepareFails /\ UNCHANGED beside_cleanup
    \/ ChunkFails /\ UNCHANGED beside_cleanup
    \/ ChunkPosted /\ UNCHANGED beside_cleanup
    \/ PostElsewhere /\ UNCHANGED beside_cleanup
    \/ SaveReturns /\ UNCHANGED beside_cleanup
    \/ SaveRaises /\ UNCHANGED beside_cleanup
    \/ RemoveImages /\ UNCHANGED beside_cleanup

SpecCleanup == CleanupInit /\ [][CleanupNext]_vars

\* ------------------------------------------- claims, temporary files
\* C18: once the pages of a document have been rendered, no temporary file
\* of the document is left on disk when its processing has ended, however it
\* ended: neither a page image, nor an Instagram copy, nor the PDF.
NoTemporaryFileRemains ==
    (kpc = "ended" /\ doc_images # <<>>) => disk = {}

\* ------------------------------------------- claims on the Publisher, II
\* the pages of batch k (from 1)
PagesOfBatch(k) == {p \in 1..page_count : BatchOf(p) = k}
\* the batches of the document
Batches == 1..((page_count + BatchSize(destination) - 1) \div BatchSize(destination))
\* the batches all of whose uploads failed
EmptyBatches == {k \in Batches : PagesOfBatch(k) \subseteq upload_failures}

\* C21: a batch all of whose uploads failed gets no post: no post is created
\* without images; when post_to_* has ended and only whole batches failed to
\* upload, every other batch has its post, and the result is failure if the
\* document has a single batch.
OnlyAFullyEmptyBatchIsSkipped ==
    /\ \A m \in 1..Len(posts) : posts[m].images # <<>>
    /\ ( /\ ppc = "done"
         /\ auth_returned = "True"
         /\ post_failures = 0
         /\ EmptyBatches # {}
         /\ upload_failures = UNION {PagesOfBatch(k) : k \in EmptyBatches} )
       => /\ \A k \in Batches \ EmptyBatches :
                 \E m \in 1..Len(posts) : Images(m) = PagesOfBatch(k)
          /\ Cardinality(Batches) = 1 => returned = "False"

\* C22: a destination without credentials is not authenticated; main goes on
\* to the fan-out exactly when at least one destination has authenticated,
\* whatever subset of the credentials is missing, and returns before it only
\* when none has; post_to_* is never called for a destination that is not
\* authenticated, and the result of such a destination is False.
MissingCredentialsOnlyDisable ==
    fan_of # "none" =>
        /\ flags \subseteq credentials
        /\ fan_pc \in {"auth", "exit", "publish"}
        /\ fan_pc = "exit" => flags = {}
        /\ fan_pc = "publish" => flags # {}
        /\ fan_pc # "publish" => attempts = <<>> /\ position = 1
        /\ \A k \in 1..Len(attempts) : attempts[k].destination \in flags
        /\ \A d \in DOMAIN results : d \notin flags => ~results[d]
        /\ (fan_pc = "publish" /\ position > Len(FanOrder(fan_of))) =>
               flags = {attempts[k].destination : k \in 1..Len(attempts)}

\* the credentials of mastodon are missing and the login of bluesky failed:
\* the fan-out has run all the same and threads, the only destination that
\* authenticated, has posted; the two others got no call and have False
MissingCredentialsOnlyDisableWitness ==
    /\ fan_of = "hello"
    /\ credentials = {"bluesky", "threads", "instagram"}
    /\ flags = {"threads"}
    /\ position = Len(Platforms) + 1
    /\ Len(attempts) = 1
    /\ attempts[1] = [destination |-> "threads", outcome |-> "True"]
    /\ results["threads"]
    /\ ~results["mastodon"]
    /\ ~results["bluesky"]

\* ======================================================================
\* TwitterAPIClient (twitter.py): post_tweet, and upload_media with
\* upload_media_v1 and upload_media_chunked_v1, as the HTTP requests they send.
\* ======================================================================
MaxWait == 2      \* how long after the response the reset time of a 429 lies

\* the status codes of the responses
Statuses == {200, 201, 204, 401, 429, 500}

\* the responses to a request sent at time t: a 429 has the reset time in
\* its x-rate-limit-reset header
Responses(t) ==
    {[status |-> s, reset |-> 0] : s \in Statuses \ {429}}
        \cup {[status |-> 429, reset |-> t + 1 + w] : w \in 1..MaxWait}

\* "if response.status_code == 201" (post_tweet),
\* "if response.status_code in [200, 201]" (upload_media_v1, INIT, FINALIZE),
\* "not in [200, 201, 204]" (APPEND)
Succeeded(kind, status) ==
    CASE kind = "tweet"  -> status = 201
      [] kind = "APPEND" -> status \in {200, 201, 204}
      [] OTHER           -> status \in {200, 201}

\* the request is sent at the time now and gets the response
Exchange(kind, response) ==
    Append(exchanges, [ request |-> kind, sent_at |-> now,
                        status |-> response.status, reset |-> response.reset ])

\* post_tweet returns None; upload_media_v1 returns None and upload_media
\* falls back to upload_media_chunked_v1
GiveUp ==
    IF request = "media" /\ rpc \in {"send", "refresh", "resend"}
    THEN /\ rpc' = "INIT"
         /\ client_result' = client_result
    ELSE /\ rpc' = "returned"
         /\ client_result' = "None"

OnlyClient ==
    NoMain /\ NoPublisher /\ NoCaption /\ NoFanOut /\ NoCleanup
        /\ NoLoop /\ NoLogin /\ NoForwarder

ClientInit ==
    /\ OnlyClient
    /\ request \in {"tweet", "media"}
    /\ has_refresh_token \in BOOLEAN
    /\ rpc = "send"
    /\ exchanges = <<>>
    /\ now = 0
    /\ client_result = "none"

\* response = requests.post(...) and the tests of its status code
FirstResponse ==
    /\ rpc = "send"
    /\ \E response \in Responses(now) :
         /\ exchanges' = Exchange(request, response)
         /\ IF Succeeded(request, response.status)
            THEN rpc' = "returned" /\ client_result' = "data"
            ELSE IF response.status = 401 /\ has_refresh_token
            THEN rpc' = "refresh" /\ client_result' = client_result
            ELSE GiveUp
    /\ now' = now + 1
    /\ UNCHANGED <<request, has_refresh_token>>

\* requests.post raises: "except Exception as e: ...; return None"
RequestRaises ==
    /\ rpc \in {"send", "resend", "INIT", "APPEND", "FINALIZE"}
    /\ exchanges' = Exchange(IF rpc \in {"send", "resend"} THEN request ELSE rpc,
                             [status |-> 0, reset |-> 0])
    /\ GiveUp
    /\ now' = now + 1
    /\ UNCHANGED <<request, has_refresh_token>>

\* "if self.refresh_access_token():" after a 401
RefreshToken ==
    /\ rpc = "refresh"
    /\ \E response \in Responses(now) :
         /\ exchanges' = Exchange("token", response)
         /\ IF response.status = 200
            THEN rpc' = "resend" /\ client_result' = client_result
            ELSE GiveUp
    /\ now' = now + 1
    /\ UNCHANGED <<request, has_refresh_token>>

\* retry_response = requests.post(...) with the new token
RetryResponse ==
    /\ rpc = "resend"
    /\ \E response \in Responses(now) :
         /\ exchanges' = Exchange(request, response)
         /\ IF Succeeded(request, response.status)
            THEN rpc' = "returned" /\ client_result' = "data"
            ELSE GiveUp
    /\ now' = now + 1
    /\ UNCHANGED <<request, has_refresh_token>>

\* upload_media_chunked_v1: the INIT, APPEND and FINALIZE requests (an image
\* is one segment)
ChunkedResponse ==
    /\ rpc \in {"INIT", "APPEND", "FINALIZE"}
    /\ \E response \in Responses(now) :
         /\ exchanges' = Exchange(rpc, response)
         /\ IF Succeeded(rpc, response.status)
            THEN CASE rpc = "INIT"     -> rpc' = "APPEND"
                                          /\ client_result' = client_result
                   [] rpc = "APPEND"   -> rpc' = "FINALIZE"
                                          /\ client_result' = client_result
                   [] rpc = "FINALIZE" -> rpc' = "returned"
                                          /\ client_result' = "data"
            ELSE GiveUp
    /\ now' = now + 1
    /\ UNCHANGED <<request, has_refresh_token>>

ClientNext ==
    \/ FirstResponse /\ UNCHANGED beside_client
    \/ RequestRaises /\ UNCHANGED beside_client
    \/ RefreshToken /\ UNCHANGED beside_client
    \/ RetryResponse /\ UNCHANGED beside_client
    \/ ChunkedResponse /\ UNCHANGED beside_client

SpecClient == ClientInit /\ [][ClientNext]_vars

\* ------------------------------------------------ claims, TwitterAPIClient
\* C23: when the call has returned, every request that got a rate-limit
\* response (429 with a reset time) was sent again, the same request, at or
\* after the reset time.
RateLimitedRequestIsRetried ==
    rpc = "returned" =>
        \A k \in 1..Len(exchanges) :
            exchanges[k].status = 429 =>
                \E j \in (k + 1)..Len(exchanges) :
                    /\ exchanges[j].request = exchanges[k].request
                    /\ exchanges[j].sent_at >= exchanges[k].reset

\* ======================================================================
\* The per-document loop of main (hello.py, twitter.py):
\* "for doc_url in unique_documents: try: ... except Exception: continue",
\* with the statements of its body that can raise.
\* ======================================================================
MaxDocs == 3      \* documents in unique_documents

\* the exception handler of the loop body leaves the loop
MutRaiseEndsLoop(k, n) == n + 1

\* "except Exception as e: logging.error(...); continue": the next document
AfterDocumentRaises(k, n) == k + 1

OnlyLoop ==
    NoMain /\ NoPublisher /\ NoCaption /\ NoFanOut /\ NoCleanup
        /\ NoClient /\ NoLogin /\ NoForwarder

LoopInit ==
    /\ OnlyLoop
    /\ candidates \in 1..MaxDocs
    /\ doc = 1
    /\ lpc = "test"
    /\ loop_urls = <<>>
    /\ saved = <<>>
    /\ began = <<>>
    /\ raised_in = <<>>

\* for doc_url in unique_documents: the next document, unless it is in
\* processed_docs["urls"] ("Skipping already processed document")
BeginDocument ==
    /\ lpc = "test"
    /\ doc <= candidates
    /\ IF doc \in Range(loop_urls)
       THEN /\ doc' = doc + 1
            /\ UNCHANGED <<lpc, began>>
       ELSE /\ began' = Append(began, doc)
            /\ lpc' = "download"
            /\ doc' = doc
    /\ UNCHANGED <<candidates, loop_urls, saved, raised_in>>

\* the end of unique_documents
EndOfDocuments ==
    /\ lpc = "test"
    /\ doc > candidates
    /\ lpc' = "done"
    /\ UNCHANGED <<candidates, doc, loop_urls, saved, began, raised_in>>

\* image_paths = handler.download_and_convert_pdf(doc_url)
DownloadReturns ==
    /\ lpc = "download"
    /\ lpc' = "publish"
    /\ UNCHANGED <<candidates, doc, loop_urls, saved, began, raised_in>>

\* post_results = handler.post_to_social_media(...);
\* if any(post_results.values()): processed_docs["urls"].append(doc_url)
PublishReturns ==
    /\ lpc = "publish"
    /\ \E any \in BOOLEAN :
         IF any
         THEN /\ loop_urls' = Append(loop_urls, doc)
              /\ lpc' = "save"
         ELSE /\ loop_urls' = loop_urls
              /\ lpc' = "cleanup"
    /\ UNCHANGED <<candidates, doc, saved, began, raised_in>>

\* handler._save_processed_docs()
SaveList ==
    /\ lpc = "save"
    /\ saved' = loop_urls
    /\ lpc' = "cleanup"
    /\ UNCHANGED <<candidates, doc, loop_urls, began, raised_in>>

\* "Clean up image files", the end of the body
CleanUpImages ==
    /\ lpc = "cleanup"
    /\ doc' = doc + 1
    /\ lpc' = "test"
    /\ UNCHANGED <<candidates, loop_urls, saved, began, raised_in>>

\* a statement of the body raises: download_and_convert_pdf (requests.get,
\* convert_from_path, image.save), post_to_social_media,
\* _save_processed_docs (open, json.dump) or os.remove
BodyRaises ==
    /\ lpc \in {"download", "publish", "save", "cleanup"}
    /\ raised_in' = SetResult(raised_in, doc, lpc)
    /\ doc' = AfterDocumentRaises(doc, candidates)
    /\ lpc' = "test"
    /\ UNCHANGED <<candidates, loop_urls, saved, began>>

LoopNext ==
    \/ BeginDocument /\ UNCHANGED beside_loop
    \/ EndOfDocuments /\ UNCHANGED beside_loop
    \/ DownloadReturns /\ UNCHANGED beside_loop
    \/ PublishReturns /\ UNCHANGED beside_loop
    \/ SaveList /\ UNCHANGED beside_loop
    \/ CleanUpImages /\ UNCHANGED beside_loop
    \/ BodyRaises /\ UNCHANGED beside_loop

SpecLoop == LoopInit /\ [][LoopNext]_vars

\* ------------------------------------------- claims, per-document loop
\* the documents are taken in listing order, none left out, whatever
\* raised before
EveryDocumentIsTaken ==
    /\ began = [k \in 1..Len(began) |-> k]
    /\ Len(began) = IF lpc \in {"test", "done"} THEN doc - 1 ELSE doc
    /\ lpc = "done" => Len(began) = candidates

\* C24, as claimed: the documents are taken in listing order whatever
\* raised before, and a document whose processing raised is not in
\* processed_docs["urls"].
FailedDocumentIsNotAdded ==
    lpc # "idle" =>
        /\ EveryDocumentIsTaken
        /\ \A d \in DOMAIN raised_in : d \notin Range(loop_urls)

\* C24, amended: the documents are taken in listing order whatever raised
\* before; a document whose download or publish call raised is not in
\* processed_docs["urls"], a document whose save raised is (the append
\* precedes the save), and it is written to the file by the next save.
FailureIsCaughtPerDocument ==
    lpc # "idle" =>
        /\ EveryDocumentIsTaken
        /\ \A d \in DOMAIN raised_in :
               /\ raised_in[d] \in {"download", "publish"} =>
                      d \notin Range(loop_urls)
               /\ raised_in[d] = "save" => d \in Range(loop_urls)
        /\ \A k \in 1..Len(saved) : saved[k] = loop_urls[k]

\* the download of the first of three documents raised, the save of the
\* second raised too, and the third was processed all the same: its save
\* wrote the second and the third
FailureIsCaughtPerDocumentWitness ==
    /\ lpc = "done"
    /\ candidates = 3
    /\ began = <<1, 2, 3>>
    /\ DOMAIN raised_in = {1, 2}
    /\ raised_in[1] = "download"
    /\ raised_in[2] = "save"
    /\ saved = <<2, 3>>

\* ======================================================================
\* authenticate_* (hello.py, twitter.py): the retry loop
\* "for attempt in range(max_retries): try: ... return True
\*  except Exception: if attempt == max_retries - 1: ... return False
\*  ...; time.sleep(2**attempt)", called by main once for each destination.
\* ======================================================================

\* time.sleep(2 * (attempt + 1))
MutBackoffLinear(k) == 2 * (k + 1)

\* time.sleep(2**attempt)
Backoff(k) == 2^k

\* authenticate_facebook begins with _validate_facebook_token
Validates(dest) == dest = "facebook"

OnlyLogin ==
    NoMain /\ NoPublisher /\ NoCaption /\ NoFanOut /\ NoCleanup
        /\ NoClient /\ NoLoop /\ NoForwarder

LoginInit ==
    /\ OnlyLogin
    /\ script \in {"hello", "twitter"}
    /\ login_of = 1
    /\ login_pc = "next"
    /\ tries = 0
    /\ logins = 0
    /\ slept = <<>>
    /\ auth_flags = {}
    /\ login_returned = "none"

\* the destination of the call under way
LoginDest == FanOrder(script)[login_of]

\* main: handler.authenticate_*(...), entered
CallAuthenticate ==
    /\ login_pc = "next"
    /\ login_of <= Len(FanOrder(script))
    /\ tries' = 0
    /\ logins' = 0
    /\ slept' = <<>>
    /\ login_returned' = "none"
    /\ login_pc' = IF Validates(LoginDest) THEN "validate" ELSE "try"
    /\ UNCHANGED <<script, login_of, auth_flags>>

\* authenticate_facebook: "if not self._validate_facebook_token(...):
\* return False", before the loop
ValidateToken ==
    /\ login_pc = "validate"
    /\ \E valid \in BOOLEAN :
         IF valid
         THEN /\ login_pc' = "try"
              /\ UNCHANGED login_returned
         ELSE /\ login_pc' = "returned"
              /\ login_returned' = "False"
    /\ UNCHANGED <<script, login_of, tries, logins, slept, auth_flags>>

\* the body of the try runs to "self.*_authenticated = True; return True"
LoginSucceeds ==
    /\ login_pc = "try"
    /\ logins' = logins + 1
    /\ auth_flags' = auth_flags \cup {LoginDest}
    /\ login_returned' = "True"
    /\ login_pc' = "returned"
    /\ UNCHANGED <<script, login_of, tries, slept>>

\* the body of the try raises: False on the last attempt, else the sleep
\* and the next attempt
LoginRaises ==
    /\ login_pc = "try"
    /\ logins' = logins + 1
    /\ IF tries = Retries(LoginDest) - 1
       THEN /\ auth_flags' = auth_flags \ {LoginDest}
            /\ login_returned' = AuthOnException
            /\ login_pc' = "returned"
            /\ UNCHANGED <<tries, slept>>
       ELSE /\ slept' = Append(slept, Backoff(tries))
            /\ tries' = tries + 1
            /\ UNCHANGED <<auth_flags, login_returned, login_pc>>
    /\ UNCHANGED <<script, login_of>>

\* main: auth_results[d] = the value returned; the next destination
AuthenticateReturns ==
    /\ login_pc = "returned"
    /\ login_of' = login_of + 1
    /\ login_pc' = "next"
    /\ UNCHANGED <<script, tries, logins, slept, auth_flags, login_returned>>

LoginNext ==
    \/ CallAuthenticate /\ UNCHANGED beside_login
    \/ ValidateToken /\ UNCHANGED beside_login
    \/ LoginSucceeds /\ UNCHANGED beside_login
    \/ LoginRaises /\ UNCHANGED beside_login
    \/ AuthenticateReturns /\ UNCHANGED beside_login

SpecLogin == LoginInit /\ [][LoginNext]_vars

\* ------------------------------------------------- claims, authenticate_*
\* C25: an authenticate_* call has made at most max_retries (3) login
\* attempts when it returns; all but the last one failed, and the k-th
\* failed one (k = 0, 1, ...) was followed by a sleep of 2^k seconds unless
\* it was the last attempt; the call returns True exactly when its last
\* attempt succeeded, and the destination's flag is then True, else False.
AuthenticateRetriesWithBackoff ==
    login_pc = "returned" =>
        /\ logins <= MaxRetries
        /\ slept = [k \in 1..Len(slept) |-> 2^(k - 1)]
        /\ Len(slept) = IF logins = 0 THEN 0 ELSE logins - 1
        /\ login_returned \in {"True", "False"}
        /\ (login_returned = "True") = (LoginDest \in auth_flags)
        /\ login_returned = "False" =>
               logins \in {0, Retries(LoginDest)}

\* authenticate_threads returned True at its third attempt, after sleeps
\* of 1 and 2 seconds, the two calls before it having returned False
AuthenticateRetriesWithBackoffWitness ==
    /\ login_pc = "returned"
    /\ script = "hello"
    /\ LoginDest = "threads"
    /\ logins = 3
    /\ slept = <<1, 2>>
    /\ login_returned = "True"
    /\ auth_flags = {"threads"}

\* ------------------------------------------- claims, the candidate list
\* the normalized URLs of the rows of the listing (<<>> for a row that is
\* not a document)
RowUrls ==
    [k \in 1..Len(listing) |->
        IF EndsWithPdf(listing[k]) THEN Normalize(DocUrl(listing[k])) ELSE <<>>]

\* the first row of the listing with the normalized URL u, 0 without one
FirstRow(rows, u) ==
    LET R == {k \in 1..Len(rows) : rows[k] = u}
    IN  IF R = {} THEN 0 ELSE CHOOSE k \in R : \A j \in R : k <= j

\* C26: the list handed to the per-document loop holds no two entries
\* with the same normalized URL; every entry is the URL of the first row of
\* the listing with its normalized URL, and the entries are in the order of
\* these rows.
CandidatesAreDistinctDocuments ==
    (pc = "loop" /\ i = 1 /\ documents # <<>>) =>
        LET rows == RowUrls
            urls_n == [a \in 1..Len(documents) |-> Normalize(documents[a])]
            row  == [a \in 1..Len(documents) |-> FirstRow(rows, urls_n[a])]
        IN  /\ \A a, b \in 1..Len(documents) : a # b => urls_n[a] # urls_n[b]
            /\ \A a \in 1..Len(documents) :
                   /\ row[a] # 0
                   /\ DocUrl(listing[row[a]]) = documents[a]
            /\ \A a, b \in 1..Len(documents) : a < b => row[a] < row[b]

\* a document is listed twice, first with a leading blank, capitals and a
\* backslash, then plainly: the list holds the first of the two URLs only
CandidatesAreDistinctDocumentsWitness ==
    /\ pc = "loop"
    /\ i = 1
    /\ Len(listing) = 2
    /\ listing[1] # listing[2]
    /\ Normalize(DocUrl(listing[1])) = Normalize(DocUrl(listing[2]))
    /\ documents = <<DocUrl(listing[1])>>
    /\ documents[1] # Normalize(documents[1])

\* ----------------------------------------- claims, the text of the posts
\* ceil(page_count / batchSize): the least n with n batches holding the pages
BatchCount ==
    CHOOSE n \in 0..page_count :
        /\ n * BatchSize(destination) >= page_count
        /\ \A j \in 0..(n - 1) : j * BatchSize(destination) < page_count

\* C27: the first post created for the document carries the caption, and
\* every later post carries "Continued... (k/n)" with k the number of the
\* batch of its pages and n = ceil(page_count / batchSize), 2 <= k <= n; so
\* exactly one post carries the caption, also after a batch that was left
\* out because none of its uploads succeeded.
FirstPostCarriesCaption ==
    posts # <<>> =>
        /\ posts[1].text = "formatted_text"
        /\ Cardinality({m \in 1..Len(posts) :
                            posts[m].text = "formatted_text"}) = 1
        /\ \A m \in 2..Len(posts) :
               /\ posts[m].text = "Continued"
               /\ posts[m].images # <<>>
               /\ posts[m].part = BatchOf(posts[m].images[1])
               /\ posts[m].parts = BatchCount
               /\ 2 <= posts[m].part
               /\ posts[m].part <= posts[m].parts

\* on Twitter no image of the first batch was uploaded, the tweet of the
\* second batch carries the caption and that of the third "Continued... (3/3)"
FirstPostCarriesCaptionWitness ==
    /\ destination = "twitter"
    /\ ppc = "done"
    /\ returned = "True"
    /\ page_count > 2 * BatchSize(destination)
    /\ Len(posts) = 2
    /\ BatchOf(posts[1].images[1]) = 2
    /\ posts[1].text = "formatted_text"
    /\ posts[2].part = 3
    /\ posts[2].parts = 3

\* ------------------------------------ claims, the result of post_to_*
\* C28: post_to_* returns True only when it has created a post, whatever
\* the number of pages, zero included.
SuccessMeansPosted ==
    (ppc = "done" /\ returned = "True") => posts # <<>>

\* C29: when post_to_* returns False it has created no post.
FailureMeansNothingPosted ==
    (ppc = "done" /\ returned = "False") => posts = <<>>

\* ======================================================================
\* The Reddit-to-Bluesky forwarder (reddit_to_bsky.py): check_and_post, run
\* again and again on the posts of subreddit.new, with posted_ids.json
\* between the runs.
\* ======================================================================
MaxPosts  == 3    \* posts in subreddit.new
MaxChecks == 2    \* consecutive runs of check_and_post

\* one_hour_ago = time.time() - 4800
Window == 4800

\* "post.created_utc < one_hour_ago"
TooOld(created_utc, t) == created_utc < t - Window

\* the created_utc of n posts, newest first, from a full window before the
\* first check to the time of the first check
Feeds(n) ==
    {f \in [1..n -> {0, Window \div 2, Window}] :
        \A k \in 1..(n - 1) : f[k] >= f[k + 1]}

OnlyForwarder ==
    NoMain /\ NoPublisher /\ NoCaption /\ NoFanOut /\ NoCleanup
        /\ NoClient /\ NoLoop /\ NoLogin

ForwarderInit ==
    /\ OnlyForwarder
    /\ checks = 1
    /\ fpc = "start"
    /\ clock = Window
    /\ \E n \in 1..MaxPosts : created \in Feeds(n)
    /\ posted_file = {}
    /\ posted_ids = {}
    /\ post_at = 0
    /\ found = {}
    /\ threads_made = [k \in 1..Len(created) |-> 0]
    /\ unposted = {}

\* posted_ids = load_posted_ids(); one_hour_ago = time.time() - 4800
LoadPostedIds ==
    /\ fpc = "start"
    /\ posted_ids' = posted_file
    /\ post_at' = 1
    /\ found' = {}
    /\ fpc' = "loop"
    /\ UNCHANGED <<checks, clock, created, posted_file, threads_made, unposted>>

\* for post in subreddit.new(limit=10): the end of the posts, a post that is
\* too old or in posted_ids, or "Found new post"
NextPost ==
    /\ fpc = "loop"
    /\ IF post_at > Len(created)
       THEN /\ fpc' = "end"
            /\ UNCHANGED <<post_at, found>>
       ELSE IF TooOld(created[post_at], clock) \/ post_at \in posted_ids
       THEN /\ post_at' = post_at + 1
            /\ UNCHANGED <<fpc, found>>
       ELSE /\ found' = found \cup {post_at}
            /\ fpc' = "media"
            /\ UNCHANGED post_at
    /\ UNCHANGED <<checks, clock, created, posted_file, posted_ids,
                   threads_made, unposted>>

\* get_media_urls returns no URL, or download_and_process_media returns
\* False for every URL: "if media_urls" / "if media_files" is false
NoUsableMedia ==
    /\ fpc = "media"
    /\ unposted' = unposted \cup {post_at}
    /\ post_at' = post_at + 1
    /\ fpc' = "loop"
    /\ UNCHANGED <<checks, clock, created, posted_file, posted_ids, found,
                   threads_made>>

\* media_files is not empty
MediaReady ==
    /\ fpc = "media"
    /\ fpc' = "thread"
    /\ UNCHANGED <<checks, clock, created, posted_file, posted_ids, post_at,
                   found, threads_made, unposted>>

\* requests.get raises in download_media (or get_media_urls raises on the
\* metadata of the post): "except Exception as e: logging.error(f'Error in
\* check_and_post: {e}')", around the loop
MediaRaises ==
    /\ fpc = "media"
    /\ unposted' = unposted \cup {post_at}
    /\ fpc' = "end"
    /\ UNCHANGED <<checks, clock, created, posted_file, posted_ids, post_at,
                   found, threads_made>>

\* if create_bluesky_thread(post.title, media_files): posted_ids.add(post.id);
\* save_posted_ids(posted_ids); then the temporary files are removed
ThreadReturns ==
    /\ fpc = "thread"
    /\ \E ok \in BOOLEAN :
         IF ok
         THEN /\ threads_made' = [threads_made EXCEPT ![post_at] = @ + 1]
              /\ posted_ids' = posted_ids \cup {post_at}
              /\ posted_file' = posted_ids \cup {post_at}
              /\ unposted' = unposted \ {post_at}
         ELSE /\ unposted' = unposted \cup {post_at}
              /\ UNCHANGED <<threads_made, posted_ids, posted_file>>
    /\ post_at' = post_at + 1
    /\ fpc' = "loop"
    /\ UNCHANGED <<checks, clock, created, found>>

\* the next run of the script, half a window later
NextCheck ==
    /\ fpc = "end"
    /\ checks < MaxChecks
    /\ checks' = checks + 1
    /\ clock' = clock + (Window \div 2)
    /\ fpc' = "start"
    /\ UNCHANGED <<created, posted_file, posted_ids, post_at, found,
                   threads_made, unposted>>

ForwarderNext ==
    \/ LoadPostedIds /\ UNCHANGED beside_forwarder
    \/ NextPost /\ UNCHANGED beside_forwarder
    \/ NoUsableMedia /\ UNCHANGED beside_forwarder
    \/ MediaReady /\ UNCHANGED beside_forwarder
    \/ MediaRaises /\ UNCHANGED beside_forwarder
    \/ ThreadReturns /\ UNCHANGED beside_forwarder
    \/ NextCheck /\ UNCHANGED beside_forwarder

SpecForwarder == ForwarderInit /\ [][ForwarderNext]_vars

\* ------------------------------------------------ claims, the forwarder
\* an id is in posted_ids, and in the file, only after a thread was created
\* for the post
PostedOnlyAfterThread ==
    \A p \in posted_ids \cup posted_file : threads_made[p] >= 1

\* no post is forwarded a second time
NeverForwardedAgain ==
    \A p \in 1..Len(threads_made) : threads_made[p] <= 1

\* a post handled without a thread is not in posted_ids
UnpostedStaysOut ==
    \A p \in unposted : p \notin posted_ids /\ p \notin posted_file

\* C30: an id gets into posted_ids and the file only after
\* create_bluesky_thread returned True for the post; a post in posted_ids is
\* not forwarded again; a post whose thread creation failed or that had no
\* usable media is not in posted_ids, and every check that ends while the
\* post is younger than 4800 seconds has taken it up again.
PostedOnceElseRetried ==
    fpc # "idle" =>
        /\ PostedOnlyAfterThread
        /\ NeverForwardedAgain
        /\ UnpostedStaysOut
        /\ fpc = "end" =>
               \A p \in unposted :
                   clock - created[p] < Window => p \in found

=============================================================================
